---- MODULE Spec2Model ----
(***************************************************************************)
(* Draft store, submission encoder, fallback queue and retry sweeper of    *)
(* the MappingApp class (src/app.js), written as a state machine.          *)
(* localStorage is the three groups of keys the class uses: the draft slot *)
(* 'mappingAppDraft', the index 'mappingApp_pending_submissions' and the   *)
(* payloads 'mappingApp_fallback_<id>'.  Every await of submitForm,        *)
(* tryFallbackStorage and retryPendingSubmissions is a point where other   *)
(* handlers may run.  Time is counted in hours.                            *)
(***************************************************************************)
EXTENDS Integers, Sequences, FiniteSets, TLC

VARIABLES
    formData,       \* this.formData
    entryMode,      \* this.entryMode
    islandSelect,   \* value of the <select id="island-select"> element
    now,            \* Date.now(), in hours
    draftSlot,      \* localStorage['mappingAppDraft']: <<>> or <<draft>>
    pendingIndex,   \* localStorage['mappingApp_pending_submissions'], parsed
    fallback,       \* localStorage['mappingApp_fallback_<id>'], id -> payload
    screen,         \* the screen shown by showScreen
    alert,          \* the message showError displayed in the last step, "" when none
    uuidCounter,    \* number of identifiers generateUUID has produced
    submitPc,       \* position of the running submitForm
    submissionData, \* submitForm: const submissionData (try block)
    fbData,         \* tryFallbackStorage: its parameter submissionData
    photoJobs,      \* the photos whose fileToBase64 promises are awaited
    sweepPc,        \* position of the running retryPendingSubmissions
    pending,        \* retryPendingSubmissions: const pending
    sweepIdx,       \* retryPendingSubmissions: position in the for..of loop
    accepted,       \* endpoint: identifiers of the records it has stored
    entries,        \* history: one record per validated submitForm invocation:
                    \* the identifier sent, the answer, the identifier queued,
                    \* the number of tryFallbackStorage calls
    removed,        \* history: identifier -> number of removeItem calls
    sweepLog,       \* history: the running or last sweep
    storageFault,   \* history: a storage write has thrown
    loadLog,        \* history: age of the draft and result of the last loadDraft
    compressing,    \* files handed to compressAndAddPhoto whose callback is due
    confirmed,      \* history: identifiers whose delivery the client took as confirmed
    sheet,          \* backend: the rows of the Submissions sheet, oldest first
    reply,          \* backend: the response body of the last doPost
    storage         \* localStorage of the browser: "ok", "quota" (setItem throws)
                    \* or "disabled" (every operation throws)

vars == <<formData, entryMode, islandSelect, now, draftSlot, pendingIndex,
          fallback, screen, alert, uuidCounter, submitPc, submissionData,
          fbData, photoJobs, sweepPc, pending, sweepIdx, accepted, entries, removed,
          sweepLog, storageFault, loadLog, compressing, confirmed,
          sheet, reply, storage>>

formVars   == <<formData, entryMode, islandSelect>>
backendVars == <<sheet, reply>>
NoReply == [success |-> FALSE, error |-> "", statusCode |-> 0, row_number |-> 0]
submitVars == <<submitPc, submissionData, fbData, photoJobs, entries>>
sweepVars  == <<sweepPc, pending, sweepIdx, sweepLog, removed>>
queueVars  == <<pendingIndex, fallback, storageFault, storage>>

-----------------------------------------------------------------------------
(* Bounds *)

MaxSubmits == 1     \* validated submitForm invocations
MaxPending == 3     \* entries queued when a sweep of the sweeper specification starts
MaxClock   == 1     \* hours the clock advances in the queue specification
MaxDraftClock == 25 \* hours the clock advances in the draft specification
MaxPhotosModel == 1 \* photos attached in the model's runs
MaxSelect == 2     \* files of one selection in the photo input
MaxFiles == 6      \* photos attached or in compression, encoder specification
MaxRaceQueue == 2  \* entries queued before the page of the race specification

-----------------------------------------------------------------------------
(* JavaScript values *)

Null      == "null"
Undefined == "undefined"
None      == [none |-> TRUE]     \* an unset local variable
EmptyObject == <<>>              \* {} : an object without own properties

\* !v for the scalar values of the form
Falsy(v) == v = Null \/ v = Undefined \/ v = ""

\* o[k] of a JavaScript object: undefined when the key is absent
Get(o, k) == IF k \in DOMAIN o THEN o[k] ELSE Undefined

\* { ...a, ...b }
Spread(a, b) ==
    [k \in (DOMAIN a) \cup (DOMAIN b) |-> IF k \in DOMAIN b THEN b[k] ELSE a[k]]

\* o[k] = v on an object that may not have the key yet
SetKey(o, k, v) ==
    [x \in (DOMAIN o) \cup {k} |-> IF x = k THEN v ELSE o[x]]

\* a File produced by canvas.toBlob in compressAndAddPhoto
File(n) == [name |-> n, size |-> 1, type |-> "image/jpeg", bytes |-> n]
IsBlob(p) == "bytes" \in DOMAIN p

\* JSON.parse(JSON.stringify(o)) of an object whose photos are File objects:
\* name, size and type of a File are prototype accessors, so a File
\* serialises as {}
JSONRoundTrip(o) ==
    IF "photos" \in DOMAIN o
    THEN [o EXCEPT !.photos = [i \in DOMAIN @ |->
                                  IF IsBlob(@[i]) THEN EmptyObject ELSE @[i]]]
    ELSE o

RECURSIVE Join(_, _)
\* Array.prototype.join
Join(s, sep) ==
    IF Len(s) = 0 THEN ""
    ELSE IF Len(s) = 1 THEN s[1]
    ELSE s[1] \o sep \o Join(Tail(s), sep)

\* s.filter(x => x !== v)
FilterOut(s, v) == SelectSeq(s, LAMBDA x : x # v)

Includes(s, v) == \E i \in 1..Len(s) : s[i] = v

\* Date.prototype.toISOString
toISOString(t) == <<"iso", t>>

-----------------------------------------------------------------------------
(* Taxonomy and inputs *)

Coords      == { [lat |-> "4.1755", lon |-> "73.5093", accuracy |-> "12"] }
DragPositions == { [lat |-> "4.1760", lng |-> "73.5100"] }
Islands     == { "Male" }
Selections  == { [category |-> "streetlight", subcategory |-> "streetlight"] }
TagCodes    == { "urgent" }
NoteTexts   == { "", "dark corner" }
LightValues == { "no" }
PhotoNames  == { "p1" }

\* a second subcategory, without required dynamic fields, and a second tag
OtherSelections == { [category |-> "psip_project", subcategory |-> "psip_project"] }
OtherTagCodes   == { "verified" }

\* the two subcategories filled through the rapid-entry table, the rows of
\* config.price_items and config.meds_availability, the values of a row
TableSelections ==
    { [category |-> "price_basket", subcategory |-> "price_item"],
      [category |-> "pharmacy", subcategory |-> "pharmacy_stock"] }
PriceItems == << [name |-> "rice", label |-> "Rice"] >>
MedItems   == << [name |-> "paracetamol", label |-> "Paracetamol"] >>
PriceRows  == [price : {"", "25"}, stock : {"", "yes"}]
MedRows    == [stock : {"", "in_stock"}]

AppVersion == "1.0.0"
Language   == "en"

-----------------------------------------------------------------------------
(* Draft store *)

DefaultFormData ==
    [lat |-> Null, lon |-> Null, gps_accuracy_m |-> Null, category |-> "",
     subcategory |-> "", tags |-> <<>>, notes |-> "", photos |-> <<>>]

StaleHours == 24

\* localStorage.setItem, getItem and removeItem throw
SetItemThrows    == storage \in {"quota", "disabled"}
GetItemThrows    == storage = "disabled"
RemoveItemThrows == storage = "disabled"

\* saveDraft: the slot after the call.  The catch block logs a throwing
\* write and the slot keeps its content.
saveDraft(fd, t) ==
    IF SetItemThrows THEN draftSlot
    ELSE << JSONRoundTrip(Spread(fd, [timestamp |-> t])) >>

\* an exception leaves saveDraft when nothing catches the throwing write
saveDraftThrows_noCatch == SetItemThrows

\* an exception leaves saveDraft: never, its try block holds the whole body
saveDraftThrows == FALSE

\* clearDraft: <<formData, slot>> after the call.  removeItem and the reset
\* of formData share one try block: a throwing removeItem skips the reset.
clearDraft ==
    IF RemoveItemThrows THEN <<formData, draftSlot>>
    ELSE <<DefaultFormData, <<>> >>

\* content of the draft slot that saveDraft did not write: the empty string,
\* text that is no JSON, the JSON values null and 5, and objects without
\* timestamp, with a text as timestamp and with null as timestamp
CorruptKinds == {"empty", "unparseable", "null", "number", "no_timestamp",
                 "text_timestamp", "null_timestamp"}

Corrupt(content) == "raw" \in DOMAIN content

\* the hours from 1970 to the load of the page: Date.now() - null
EpochHours == 490000

\* loadDraft with the JSON.parse outside its try block
loadCorrupt_noCatch(fd, slot, t) ==
    LET kind == slot[1].raw
    IN  IF kind \in {"empty", "unparseable"} THEN <<fd, slot>>
        ELSE <<DefaultFormData, <<>> >>

\* loadDraft on such content: <<formData, slot>> after the call.
\*   - the empty string fails the test if (draftData): nothing is done;
\*   - JSON.parse throws on text that is no JSON, draft.timestamp throws on
\*     null: the catch block calls clearDraft();
\*   - a number and an object without timestamp or with a text as timestamp
\*     give hoursSinceDraft = NaN, and NaN < 24 is false: clearDraft();
\*   - null as timestamp counts as 0: the draft is as old as the epoch.
loadCorrupt(fd, slot, t) ==
    LET kind   == slot[1].raw
        throws == kind \in {"unparseable", "null"}
        isNaN_ == kind \in {"number", "no_timestamp", "text_timestamp"}
        hoursSinceDraft == EpochHours + t
    IN  IF kind = "empty" THEN <<fd, slot>>
        ELSE IF throws THEN <<DefaultFormData, <<>> >>
        ELSE IF ~isNaN_ /\ hoursSinceDraft < StaleHours THEN <<fd, slot>>
        ELSE <<DefaultFormData, <<>> >>

\* loadDraft without the freshness check
loadDraft_noExpiry(fd, slot, t) ==
    IF slot = <<>> THEN <<fd, slot>> ELSE <<Spread(fd, slot[1]), slot>>

\* loadDraft: <<formData, slot>> after the call.  A throwing getItem ends in
\* the catch block, whose clearDraft() throws and catches in turn.
loadDraft(fd, slot, t) ==
    IF GetItemThrows \/ slot = <<>> THEN <<fd, slot>>
    ELSE IF Corrupt(slot[1]) THEN loadCorrupt(fd, slot, t)
    ELSE LET draft == slot[1]
             hoursSinceDraft == t - draft.timestamp
         IN  IF hoursSinceDraft < StaleHours
             THEN <<Spread(fd, draft), slot>>
             ELSE <<DefaultFormData, <<>> >>      \* clearDraft()

-----------------------------------------------------------------------------
(* Form handlers.  The loading overlay covers the form while submitForm    *)
(* runs, so the form controls are operated only when no submit is running. *)

FormOpen == screen = "form-screen" /\ submitPc = "idle"

\* click on #start-btn
startBtnClick ==
    /\ screen = "start-screen"
    /\ screen' = "location-screen"
    /\ entryMode' = "map"
    /\ alert' = ""
    /\ UNCHANGED <<formData, islandSelect, now, draftSlot, uuidCounter, accepted>>
    /\ UNCHANGED <<submitVars, sweepVars, queueVars, loadLog, compressing, confirmed, backendVars>>

\* click on #toggle-entry-mode-btn
toggleEntryMode ==
    /\ screen = "location-screen"
    /\ entryMode' = IF entryMode = "map" THEN "island" ELSE "map"
    /\ alert' = ""
    /\ UNCHANGED <<formData, islandSelect, now, draftSlot, screen,
                   uuidCounter, accepted>>
    /\ UNCHANGED <<submitVars, sweepVars, queueVars, loadLog, compressing, confirmed, backendVars>>

\* the user picks an option of #island-select
islandSelectChange(v) ==
    /\ screen = "location-screen"
    /\ entryMode = "island"
    /\ islandSelect' = v
    /\ alert' = ""
    /\ UNCHANGED <<formData, entryMode, now, draftSlot, screen,
                   uuidCounter, accepted>>
    /\ UNCHANGED <<submitVars, sweepVars, queueVars, loadLog, compressing, confirmed, backendVars>>

handleLocationSuccess(c) ==
    /\ screen = "location-screen"
    /\ formData' = [formData EXCEPT !.lat = c.lat, !.lon = c.lon,
                                    !.gps_accuracy_m = c.accuracy]
    /\ alert' = ""
    /\ UNCHANGED <<entryMode, islandSelect, now, draftSlot, screen,
                   uuidCounter, accepted>>
    /\ UNCHANGED <<submitVars, sweepVars, queueVars, loadLog, compressing, confirmed, backendVars>>

\* dragend listener of the pin placed by initializeMap
markerDragEnd(newPos) ==
    /\ screen = "location-screen"
    /\ entryMode = "map"
    /\ ~Falsy(formData.lat)
    /\ formData' = [formData EXCEPT !.lat = newPos.lat, !.lon = newPos.lng]
    /\ alert' = ""
    /\ UNCHANGED <<entryMode, islandSelect, now, draftSlot, screen,
                   uuidCounter, accepted>>
    /\ UNCHANGED <<submitVars, sweepVars, queueVars, loadLog, compressing, confirmed, backendVars>>

confirmLocation ==
    /\ screen = "location-screen"
    /\ IF entryMode = "map"
       THEN IF Falsy(formData.lat) \/ Falsy(formData.lon)
            THEN /\ alert' = "Please select a location first."
                 /\ UNCHANGED <<formData, draftSlot, screen>>
            ELSE /\ draftSlot' = saveDraft(formData, now)
                 /\ screen' = IF saveDraftThrows THEN screen ELSE "form-screen"
                 /\ alert' = ""
                 /\ UNCHANGED <<formData>>
       ELSE IF Falsy(islandSelect)
            THEN /\ alert' = "Please select an island."
                 /\ UNCHANGED <<formData, draftSlot, screen>>
            ELSE /\ formData' = [formData EXCEPT !.lat = islandSelect,
                                                 !.lon = "ISLAND_ENTRY",
                                                 !.gps_accuracy_m = Null]
                 /\ draftSlot' = saveDraft(formData', now)
                 /\ screen' = IF saveDraftThrows THEN screen ELSE "form-screen"
                 /\ alert' = ""
    /\ UNCHANGED <<entryMode, islandSelect, now, uuidCounter, accepted>>
    /\ UNCHANGED <<submitVars, sweepVars, queueVars, loadLog, compressing, confirmed, backendVars>>

\* the rapid-entry table of price_item and pharmacy_stock
IsRapidEntry(subcategoryCode) ==
    subcategoryCode \in {"price_item", "pharmacy_stock"}
formDataType(type) ==
    IF type = "price_item" THEN "price_basket_data" ELSE "pharmacy_stock_data"
tableItems(type) == IF type = "price_item" THEN PriceItems ELSE MedItems
tableRows(type)  == IF type = "price_item" THEN PriceRows ELSE MedRows

\* buildRapidEntryTable: formData gets an empty object under the table's
\* key unless it has one
buildRapidEntryTable(fd, type) ==
    IF formDataType(type) \in DOMAIN fd THEN fd
    ELSE SetKey(fd, formDataType(type), EmptyObject)

\* the values the inputs of the row of itemId show
rowValue(fd, type, itemId) ==
    IF formDataType(type) \in DOMAIN fd /\ itemId \in DOMAIN fd[formDataType(type)]
    THEN fd[formDataType(type)][itemId]
    ELSE IF type = "price_item" THEN [price |-> "", stock |-> ""]
    ELSE [stock |-> ""]

\* handleSearchResultSelect, which runs onSubcategoryChange and, through
\* addCategorySpecificFields, buildRapidEntryTable
handleSearchResultSelect(sel) ==
    /\ FormOpen
    /\ formData' =
         LET fd == [formData EXCEPT !.category = sel.category,
                                    !.subcategory = sel.subcategory]
         IN  IF IsRapidEntry(sel.subcategory)
             THEN buildRapidEntryTable(fd, sel.subcategory) ELSE fd
    /\ draftSlot' = saveDraft(formData', now)
    /\ alert' = ""
    /\ UNCHANGED <<entryMode, islandSelect, now, screen, uuidCounter, accepted>>
    /\ UNCHANGED <<submitVars, sweepVars, queueVars, loadLog, compressing, confirmed, backendVars>>

\* change listener of #light-working (addStreetlightFields)
lightWorkingChange(v) ==
    /\ FormOpen
    /\ formData.subcategory = "streetlight"
    /\ formData' = SetKey(formData, "light_working", v)
    /\ draftSlot' = saveDraft(formData', now)
    /\ alert' = ""
    /\ UNCHANGED <<entryMode, islandSelect, now, screen, uuidCounter, accepted>>
    /\ UNCHANGED <<submitVars, sweepVars, queueVars, loadLog, compressing, confirmed, backendVars>>

\* change listener of an input of the rapid-entry table: updateTableFormData
\* copies every row of the table to formData, then saveDraft
updateTableFormData(type, itemId, row) ==
    /\ FormOpen
    /\ formData.subcategory = type
    /\ formData' = SetKey(formData, formDataType(type),
                          [n \in {tableItems(type)[i].name :
                                     i \in 1..Len(tableItems(type))} |->
                              IF n = itemId THEN row
                              ELSE rowValue(formData, type, n)])
    /\ draftSlot' = saveDraft(formData', now)
    /\ alert' = ""
    /\ UNCHANGED <<entryMode, islandSelect, now, screen, uuidCounter, accepted>>
    /\ UNCHANGED <<submitVars, sweepVars, queueVars, loadLog, compressing, confirmed, backendVars>>

\* the change listener without the includes test
tagChange_noIncludes(code, checked) ==
    /\ FormOpen
    /\ formData' = [formData EXCEPT !.tags =
                       IF checked THEN Append(@, code) ELSE FilterOut(@, code)]
    /\ draftSlot' = saveDraft(formData', now)
    /\ alert' = ""
    /\ UNCHANGED <<entryMode, islandSelect, now, screen, uuidCounter, accepted>>
    /\ UNCHANGED <<submitVars, sweepVars, queueVars, loadLog, compressing, confirmed, backendVars>>

\* change listener of a tag checkbox (loadTags)
tagChange(code, checked) ==
    /\ FormOpen
    /\ formData' = [formData EXCEPT !.tags =
                       IF checked
                       THEN IF Includes(@, code) THEN @ ELSE Append(@, code)
                       ELSE FilterOut(@, code)]
    /\ draftSlot' = saveDraft(formData', now)
    /\ alert' = ""
    /\ UNCHANGED <<entryMode, islandSelect, now, screen, uuidCounter, accepted>>
    /\ UNCHANGED <<submitVars, sweepVars, queueVars, loadLog, compressing, confirmed, backendVars>>

updateNotesCount(text) ==
    /\ FormOpen
    /\ formData' = [formData EXCEPT !.notes = text]
    /\ draftSlot' = saveDraft(formData', now)
    /\ alert' = ""
    /\ UNCHANGED <<entryMode, islandSelect, now, screen, uuidCounter, accepted>>
    /\ UNCHANGED <<submitVars, sweepVars, queueVars, loadLog, compressing, confirmed, backendVars>>

max_photos == 5

\* displayPhotos throws: URL.createObjectURL rejects a photo that is not a
\* Blob, such as the {} a reloaded draft holds
displayPhotosThrows(photos) == \E i \in 1..Len(photos) : ~IsBlob(photos[i])

\* handlePhotoUpload of one file, followed by the compression callback
\* that calls addPhotoToForm: push, displayPhotos, saveDraft
handlePhotoUpload(name) ==
    /\ FormOpen
    /\ Len(formData.photos) < MaxPhotosModel
    /\ IF Len(formData.photos) + 1 > max_photos
       THEN /\ alert' = "Maximum photos allowed."
            /\ UNCHANGED <<formData, draftSlot>>
       ELSE /\ formData' = [formData EXCEPT !.photos = Append(@, File(name))]
            /\ draftSlot' = IF displayPhotosThrows(formData'.photos)
                            THEN draftSlot ELSE saveDraft(formData', now)
            /\ alert' = ""
    /\ UNCHANGED <<entryMode, islandSelect, now, screen, uuidCounter, accepted>>
    /\ UNCHANGED <<submitVars, sweepVars, queueVars, loadLog, compressing, confirmed, backendVars>>

\* the files of one selection in the <input type="file" id="photo-input">
FileLists == UNION {[1..n -> PhotoNames] : n \in 1..MaxSelect}

\* handlePhotoUpload of a selection: the limit is tested against the photos
\* attached now, then every file is handed to compressAndAddPhoto, whose
\* FileReader, Image and canvas.toBlob callbacks run later
handlePhotoUploadFiles(files) ==
    /\ FormOpen
    /\ Len(formData.photos) + Len(compressing) + Len(files) <= MaxFiles
    /\ IF Len(formData.photos) + Len(files) > max_photos
       THEN /\ alert' = "Maximum photos allowed."
            /\ UNCHANGED compressing
       ELSE /\ compressing' = compressing \o files
            /\ alert' = ""
    /\ UNCHANGED <<formVars, now, draftSlot, screen, uuidCounter, accepted>>
    /\ UNCHANGED <<submitVars, sweepVars, queueVars, loadLog, confirmed, backendVars>>

\* the canvas.toBlob callback of one file in compression: addPhotoToForm
\* pushes the compressed file, then displayPhotos, then saveDraft
addPhotoToForm(i) ==
    /\ i \in 1..Len(compressing)
    /\ formData' = [formData EXCEPT !.photos = Append(@, File(compressing[i]))]
    /\ compressing' = [k \in 1..(Len(compressing) - 1) |->
                          IF k < i THEN compressing[k] ELSE compressing[k + 1]]
    /\ draftSlot' = IF displayPhotosThrows(formData'.photos)
                    THEN draftSlot ELSE saveDraft(formData', now)
    /\ alert' = ""
    /\ UNCHANGED <<entryMode, islandSelect, now, screen, uuidCounter, accepted>>
    /\ UNCHANGED <<submitVars, sweepVars, queueVars, loadLog, confirmed, backendVars>>

removePhoto(index) ==
    /\ FormOpen
    /\ index \in 1..Len(formData.photos)
    /\ formData' = [formData EXCEPT !.photos =
                       [i \in 1..(Len(@) - 1) |->
                           IF i < index THEN @[i] ELSE @[i + 1]]]
    /\ draftSlot' = IF displayPhotosThrows(formData'.photos)
                    THEN draftSlot ELSE saveDraft(formData', now)
    /\ alert' = ""
    /\ UNCHANGED <<entryMode, islandSelect, now, screen, uuidCounter, accepted>>
    /\ UNCHANGED <<submitVars, sweepVars, queueVars, loadLog, compressing, confirmed, backendVars>>

startNewEntry ==
    /\ screen = "success-screen"
    /\ formData' = DefaultFormData
    /\ draftSlot' = clearDraft[2]
    /\ screen' = "start-screen"
    /\ alert' = ""
    /\ UNCHANGED <<entryMode, islandSelect, now, uuidCounter,
                   accepted>>
    /\ UNCHANGED <<submitVars, sweepVars, queueVars, loadLog, compressing, confirmed, backendVars>>

-----------------------------------------------------------------------------
(* Submission encoder *)

\* validateForm: the message it shows, "" when the form is valid
validateForm(fd, mode, island) ==
    IF mode = "map" /\ (Falsy(fd.lat) \/ Falsy(fd.lon))
    THEN "Please select a location."
    ELSE IF mode # "map" /\ Falsy(island)
    THEN "Please select an island."
    ELSE IF Falsy(fd.category)
    THEN "Please select a category."
    ELSE IF Falsy(fd.subcategory)
    THEN "Please select a subcategory."
    ELSE IF fd.subcategory = "price_item"
            /\ (Falsy(Get(fd, "price_item")) \/ Falsy(Get(fd, "price_mvr"))
                \/ Falsy(Get(fd, "in_stock")))
    THEN "Please fill in all required fields for price basket."
    ELSE IF fd.subcategory = "pharmacy_stock"
            /\ (Falsy(Get(fd, "med_item")) \/ Falsy(Get(fd, "med_availability")))
    THEN "Please fill in all required fields for pharmacy stock."
    ELSE IF fd.subcategory = "internet_speed"
            /\ (Falsy(Get(fd, "down_mbps")) \/ Falsy(Get(fd, "up_mbps"))
                \/ Falsy(Get(fd, "ping_ms")))
    THEN "Please fill in all required fields for internet speed test."
    ELSE IF fd.subcategory = "streetlight" /\ Falsy(Get(fd, "light_working"))
    THEN "Please indicate if the streetlight is working."
    ELSE ""

\* generateIPHash: a hash of the user agent and Date.now()
generateIPHash(t) == <<"hash", t>>

\* getPriceBasketData and getPharmacyStockData: the filled rows of the
\* table, formatted and joined
getPriceBasketData(fd) ==
    LET filled == SelectSeq(PriceItems, LAMBDA item :
                     rowValue(fd, "price_item", item.name).price # ""
                     \/ rowValue(fd, "price_item", item.name).stock # "")
        orNA(v) == IF v = "" THEN "N/A" ELSE v
    IN  Join([i \in 1..Len(filled) |->
                filled[i].label \o ":"
                \o orNA(rowValue(fd, "price_item", filled[i].name).price) \o ":"
                \o orNA(rowValue(fd, "price_item", filled[i].name).stock)], "; ")
getPharmacyStockData(fd) ==
    LET filled == SelectSeq(MedItems, LAMBDA med :
                     rowValue(fd, "pharmacy_stock", med.name).stock # "")
    IN  Join([i \in 1..Len(filled) |->
                filled[i].label \o ":"
                \o rowValue(fd, "pharmacy_stock", filled[i].name).stock], "; ")

\* prepareSubmissionData with generateUUID() = id and new Date() = t.  No
\* selection of the model is the accessibility audit.
prepareSubmissionData(fd, id, t) ==
    [submission_id |-> id,
     submitted_at_iso |-> toISOString(t),
     app_version |-> AppVersion,
     language |-> Language,
     lat |-> fd.lat,
     lon |-> fd.lon,
     gps_accuracy_m |-> fd.gps_accuracy_m,
     category |-> fd.category,
     subcategory |-> IF fd.subcategory = "price_item"
                     THEN getPriceBasketData(fd)
                     ELSE IF fd.subcategory = "pharmacy_stock"
                     THEN getPharmacyStockData(fd)
                     ELSE fd.subcategory,
     tags |-> Join(fd.tags, ";"),
     notes |-> IF Falsy(fd.notes) THEN "" ELSE fd.notes,
     consent_confirmed |-> "yes",
     ip_hash |-> generateIPHash(t)]

\* fileToBase64: the data URL FileReader.readAsDataURL resolves with;
\* readAsDataURL throws for a value that is not a Blob
fileToBase64(file) == [mime |-> file.type, base64 |-> file.bytes]
AllConvert(photos) == \A i \in 1..Len(photos) : IsBlob(photos[i])

\* the photos array built without awaiting the conversions: none has settled
encodePhotos_notAwaited(photos) == <<>>

\* submitForm: the photos array added to the record
encodePhotos(photos) ==
    [i \in 1..Len(photos) |->
        LET dataUrl == fileToBase64(photos[i])
        IN  [mimeType |-> dataUrl.mime, data |-> dataUrl.base64]]

\* tryFallbackStorage: the object written under the fallback key
fallbackRecord(data, photos, jobs, t) ==
    Spread(data,
           [stored_at |-> toISOString(t),
            photos |-> [i \in 1..Len(photos) |->
                          [name |-> photos[i].name,
                           size |-> photos[i].size,
                           type |-> photos[i].type,
                           data |-> IF i <= Len(jobs)
                                    THEN fileToBase64(jobs[i])
                                    ELSE Undefined]]])

-----------------------------------------------------------------------------
(* Remote endpoint: the answers fetch can resolve or reject with *)

ResponseKinds == {"network_error", "http_500", "json_success",
                  "json_failure", "opaque_200"}

\* response.ok
ResponseOk(kind) == kind \in {"json_success", "json_failure", "opaque_200"}

\* addSheetHeaders: the columns of the sheet, in order
headers ==
    <<"submission_id", "submitted_at_iso", "app_version", "language", "lat",
      "lon", "gps_accuracy_m", "category", "subcategory", "tags",
      "title_or_name", "notes", "photo_1_url", "photo_2_url", "photo_3_url",
      "photo_4_url", "photo_5_url", "contact_name", "contact_phone",
      "contact_other", "price_item", "price_mvr", "in_stock", "med_item",
      "med_availability", "med_price_mvr", "insulin_cold_chain",
      "light_working", "lux_ground", "hazard_type", "access_features", "isp",
      "down_mbps", "up_mbps", "ping_ms", "data_price_mvr_gb", "sample_type",
      "ph", "tds_ppm", "smell", "color", "pm25", "pm10", "noise_db", "temp_c",
      "rh", "project_type", "progress_status", "contractor", "mode",
      "operator_name", "days_of_week", "submitter_nickname",
      "consent_confirmed", "ip_hash">>

\* the columns savePhotos fills from the photos array
photoHeaders == {"photo_1_url", "photo_2_url", "photo_3_url", "photo_4_url",
                 "photo_5_url"}

\* the endpoint has stored the record it answers for
EndpointStores(kind) == kind \in {"json_success", "opaque_200"}

\* submitForm taking every response with response.ok as a delivery
SubmitConfirmed_okOnly(kind) == ResponseOk(kind)

\* submitForm reaches clearDraft() in its try block: response.ok holds,
\* response.json() parses and result.success is true
SubmitConfirmed(kind) == kind = "json_success"

\* retryPendingSubmissions removes the entry
RetryConfirmed(kind) == ResponseOk(kind)

-----------------------------------------------------------------------------
(* submitForm *)

SetEntry(f, v) == [entries EXCEPT ![Len(entries)][f] = v]

\* submitForm returns after validateForm has shown its message
submitInvalid ==
    /\ FormOpen
    /\ validateForm(formData, entryMode, islandSelect) # ""
    /\ alert' = validateForm(formData, entryMode, islandSelect)
    /\ UNCHANGED <<formVars, now, draftSlot, screen, uuidCounter, accepted>>
    /\ UNCHANGED <<submitVars, sweepVars, queueVars, loadLog, compressing, confirmed, backendVars>>

\* submitForm up to its first await (Promise.all of the conversions)
submitStart ==
    /\ FormOpen
    /\ validateForm(formData, entryMode, islandSelect) = ""
    /\ Len(entries) < MaxSubmits
    /\ submissionData' = prepareSubmissionData(formData, uuidCounter + 1, now)
    /\ uuidCounter' = uuidCounter + 1
    /\ photoJobs' = formData.photos
    /\ submitPc' = "converting"
    /\ entries' = Append(entries, [sentId |-> uuidCounter + 1,
                                   response |-> "none", queuedId |-> 0,
                                   fallbackCalls |-> 0,
                                   result |-> "running"])
    /\ alert' = ""
    /\ UNCHANGED <<formVars, now, draftSlot, screen, fbData, accepted>>
    /\ UNCHANGED <<sweepVars, queueVars, loadLog, compressing, confirmed, backendVars>>

\* a catch block that reads the submissionData of the try block: the name
\* is out of scope there, the ReferenceError ends submitForm before
\* tryFallbackStorage is called
catchBlock_blockScoped(ents) ==
    /\ submitPc' = "idle"
    /\ entries' = [ents EXCEPT ![Len(ents)].result = "error"]
    /\ alert' = ""
    /\ UNCHANGED <<formVars, draftSlot, screen, submissionData, fbData,
                   uuidCounter, photoJobs>>

\* the catch block of submitForm up to the await inside tryFallbackStorage
catchBlock(ents) ==
    /\ fbData' = prepareSubmissionData(formData, uuidCounter + 1, now)
    /\ uuidCounter' = uuidCounter + 1
    /\ photoJobs' = formData.photos
    /\ submitPc' = "fallback_converting"
    /\ entries' = [ents EXCEPT ![Len(ents)].fallbackCalls = @ + 1]
    /\ alert' = ""
    /\ UNCHANGED <<formVars, draftSlot, screen, submissionData>>

\* submitForm: let rapidEntryData
rapidEntryData(fd) ==
    IF fd.subcategory = "price_item" THEN getPriceBasketData(fd)
    ELSE IF fd.subcategory = "pharmacy_stock" THEN getPharmacyStockData(fd)
    ELSE ""

\* the conversions settle; the record is completed and fetch is called
submitConverted ==
    /\ submitPc = "converting"
    /\ IF AllConvert(photoJobs)
       THEN /\ submissionData' =
                 LET withPhotos == SetKey(submissionData, "photos",
                                          encodePhotos(photoJobs))
                 IN  IF rapidEntryData(formData) # ""
                     THEN SetKey(withPhotos, "rapid_entry_data",
                                 rapidEntryData(formData))
                     ELSE withPhotos
            /\ submitPc' = "fetching"
            /\ photoJobs' = <<>>
            /\ alert' = ""
            /\ UNCHANGED <<formVars, draftSlot, screen, fbData, uuidCounter,
                           entries>>
       ELSE catchBlock(entries)
    /\ UNCHANGED <<now, accepted>>
    /\ UNCHANGED <<sweepVars, queueVars, loadLog, compressing, confirmed, backendVars>>

\* fetch settles with an answer of the given kind
submitResponse(kind) ==
    /\ submitPc = "fetching"
    /\ accepted' = IF EndpointStores(kind)
                   THEN accepted \cup {submissionData.submission_id}
                   ELSE accepted
    /\ IF SubmitConfirmed(kind)
       THEN /\ formData' = clearDraft[1]
            /\ draftSlot' = clearDraft[2]
            /\ screen' = "success-screen"
            /\ submitPc' = "idle"
            /\ submissionData' = None
            /\ entries' = [SetEntry("response", kind)
                              EXCEPT ![Len(entries)].result = "delivered"]
            /\ alert' = ""
            /\ UNCHANGED <<entryMode, islandSelect, fbData,
                           photoJobs, uuidCounter>>
       ELSE catchBlock(SetEntry("response", kind))
    /\ confirmed' = IF SubmitConfirmed(kind)
                    THEN confirmed \cup {submissionData.submission_id}
                    ELSE confirmed
    /\ UNCHANGED backendVars
    /\ UNCHANGED now
    /\ UNCHANGED <<sweepVars, queueVars, loadLog, compressing>>

StorageFaults == {"none", "payload_write", "index_write"}

\* tryFallbackStorage writing the index before the payload
fallbackStore_indexFirst(fault) ==
    /\ submitPc = "fallback_converting"
    /\ SetItemThrows => fault = "payload_write"
    /\ LET id      == fbData.submission_id
           payload == fallbackRecord(fbData, formData.photos, photoJobs, now)
           okConv  == AllConvert(photoJobs)
           wrote   == okConv /\ fault # "payload_write"
           success == okConv /\ fault = "none"
       IN  /\ okConv \/ fault = "none"
           /\ fallback' = IF wrote THEN SetKey(fallback, id, payload)
                          ELSE fallback
           /\ pendingIndex' = IF okConv /\ fault # "index_write"
                              THEN Append(pendingIndex, id)
                              ELSE pendingIndex
           /\ storageFault' = (storageFault \/ fault # "none")
           /\ IF success
              THEN /\ formData' = clearDraft[1]
                   /\ draftSlot' = clearDraft[2]
                   /\ screen' = "success-screen"
                   /\ entries' = [SetEntry("queuedId", id)
                                     EXCEPT ![Len(entries)].result = "queued"]
                   /\ alert' = ""
              ELSE /\ alert' = "Failed to submit data. Your entry has been saved locally and will be retried later."
                   /\ entries' = SetEntry("result", "error")
                   /\ UNCHANGED <<formData, draftSlot, screen>>
           /\ sweepLog' = IF sweepPc # "idle" /\ wrote
                          THEN [sweepLog EXCEPT !.concurrent = TRUE]
                          ELSE sweepLog
    /\ submitPc' = "idle"
    /\ submissionData' = None
    /\ fbData' = None
    /\ photoJobs' = <<>>
    /\ UNCHANGED <<entryMode, islandSelect, now, uuidCounter, accepted>>
    /\ UNCHANGED <<sweepPc, pending, sweepIdx, removed, loadLog, compressing,
                   confirmed, backendVars, storage>>

\* tryFallbackStorage after its await, and the rest of the catch block.
\* The write of the payload throws when storage is at its quota or disabled,
\* and may throw for this payload alone, as may the write of the index.
fallbackStore(fault) ==
    /\ submitPc = "fallback_converting"
    /\ SetItemThrows => fault = "payload_write"
    /\ LET id      == fbData.submission_id
           payload == fallbackRecord(fbData, formData.photos, photoJobs, now)
           okConv  == AllConvert(photoJobs)
           wrote   == okConv /\ fault # "payload_write"
           success == okConv /\ fault = "none"
       IN  /\ okConv \/ fault = "none"
           /\ fallback' = IF wrote THEN SetKey(fallback, id, payload)
                          ELSE fallback
           /\ pendingIndex' = IF success THEN Append(pendingIndex, id)
                              ELSE pendingIndex
           /\ storageFault' = (storageFault \/ fault # "none")
           /\ IF success
              THEN /\ formData' = clearDraft[1]
                   /\ draftSlot' = clearDraft[2]
                   /\ screen' = "success-screen"
                   /\ entries' = [SetEntry("queuedId", id)
                                     EXCEPT ![Len(entries)].result = "queued"]
                   /\ alert' = ""
              ELSE /\ alert' = "Failed to submit data. Your entry has been saved locally and will be retried later."
                   /\ entries' = SetEntry("result", "error")
                   /\ UNCHANGED <<formData, draftSlot, screen>>
           /\ sweepLog' = IF sweepPc # "idle" /\ wrote
                          THEN [sweepLog EXCEPT !.concurrent = TRUE]
                          ELSE sweepLog
    /\ submitPc' = "idle"
    /\ submissionData' = None
    /\ fbData' = None
    /\ photoJobs' = <<>>
    /\ UNCHANGED <<entryMode, islandSelect, now, uuidCounter, accepted>>
    /\ UNCHANGED <<sweepPc, pending, sweepIdx, removed, loadLog, compressing,
                   confirmed, backendVars, storage>>

-----------------------------------------------------------------------------
(* retryPendingSubmissions *)

NoSweep == [state |-> "none", snapshot |-> <<>>, stored |-> {},
            outcomes |-> <<>>, concurrent |-> FALSE]

\* the payloads the loop can read: getItem throws inside the try block of
\* each iteration when storage is disabled
Readable(store) == IF GetItemThrows THEN <<>> ELSE store

\* the loop without its if (fallbackData) test
Loadable_noCheck(snap, store, i) == (i + 1)..Len(snap)

\* positions after i of the snapshot whose payload is present in store:
\* JSON.parse(localStorage.getItem(fallbackKey)) is null for the others
Loadable(snap, store, i) ==
    {j \in (i + 1)..Len(snap) : snap[j] \in DOMAIN store}

\* the loop reading the index again at every iteration instead of its const
loopFrom_liveIndex(snap, store, i, log) ==
    LET live == snap \o SelectSeq(pendingIndex, LAMBDA id : ~Includes(snap, id))
    IN  IF Loadable(live, store, i) = {}
        THEN /\ sweepPc' = "idle"
             /\ pending' = <<>>
             /\ sweepIdx' = 0
             /\ sweepLog' = [log EXCEPT !.state = "done"]
        ELSE /\ sweepPc' = "fetching"
             /\ pending' = live
             /\ sweepIdx' = CHOOSE j \in Loadable(live, store, i) :
                               \A k \in Loadable(live, store, i) : j <= k
             /\ sweepLog' = log

\* the for..of loop runs on from position i to its next fetch, or to its end
loopFrom(snap, store, i, log) ==
    IF Loadable(snap, store, i) = {}
    THEN /\ sweepPc' = "idle"
         /\ pending' = <<>>
         /\ sweepIdx' = 0
         /\ sweepLog' = [log EXCEPT !.state = "done"]
    ELSE /\ sweepPc' = "fetching"
         /\ pending' = snap
         /\ sweepIdx' = CHOOSE j \in Loadable(snap, store, i) :
                           \A k \in Loadable(snap, store, i) : j <= k
         /\ sweepLog' = log

\* retryPendingSubmissions without the || '[]' of its read: the absent
\* index parses to null, whose length cannot be read
sweepStart_noDefault ==
    /\ sweepPc = "idle"
    /\ IF GetItemThrows \/ Len(pendingIndex) = 0
       THEN /\ sweepLog' = [NoSweep EXCEPT !.state = "rejected"]
            /\ UNCHANGED <<sweepPc, pending, sweepIdx>>
       ELSE loopFrom(pendingIndex, fallback, 0,
                     [state |-> "running", snapshot |-> pendingIndex,
                      stored |-> {pendingIndex[j] : j \in
                                     Loadable(pendingIndex, fallback, 0)},
                      outcomes |-> <<>>, concurrent |-> FALSE])
    /\ alert' = ""
    /\ UNCHANGED <<formVars, now, draftSlot, screen, uuidCounter, accepted,
                   removed>>
    /\ UNCHANGED <<submitVars, queueVars, loadLog, compressing, confirmed, backendVars>>

\* retryPendingSubmissions up to its first await, or to its return.  The
\* read of the index stands before the loop, outside every try block: a
\* throwing getItem rejects the promise the method returned.  With an empty
\* or absent index it returns at once.
sweepStart ==
    /\ sweepPc = "idle"
    /\ IF GetItemThrows
       THEN /\ sweepLog' = [NoSweep EXCEPT !.state = "rejected"]
            /\ UNCHANGED <<sweepPc, pending, sweepIdx>>
       ELSE IF Len(pendingIndex) = 0
       THEN /\ sweepLog' = [NoSweep EXCEPT !.state = "nothing_pending"]
            /\ UNCHANGED <<sweepPc, pending, sweepIdx>>
       ELSE loopFrom(pendingIndex, fallback, 0,
                     [state |-> "running", snapshot |-> pendingIndex,
                      stored |-> {pendingIndex[j] : j \in
                                     Loadable(pendingIndex, fallback, 0)},
                      outcomes |-> <<>>, concurrent |-> FALSE])
    /\ alert' = ""
    /\ UNCHANGED <<formVars, now, draftSlot, screen, uuidCounter, accepted,
                   removed>>
    /\ UNCHANGED <<submitVars, queueVars, loadLog, compressing, confirmed, backendVars>>

\* the updated index rebuilt back to front
updatedPending_reversed(snap, submissionId) ==
    LET kept == FilterOut(snap, submissionId)
    IN  [i \in 1..Len(kept) |-> kept[Len(kept) + 1 - i]]

\* the updated index written after a confirmed retry of submissionId
updatedPending(snap, submissionId) == FilterOut(snap, submissionId)

\* the fetch of the entry at sweepIdx settles with an answer of the given kind
sweepResponse(kind) ==
    /\ sweepPc = "fetching"
    /\ LET submissionId == pending[sweepIdx]
           log == [sweepLog EXCEPT !.outcomes = Append(@, <<submissionId, kind>>)]
       IN  /\ accepted' = IF EndpointStores(kind)
                          THEN accepted \cup {submissionId}
                          ELSE accepted
           /\ IF RetryConfirmed(kind) /\ ~RemoveItemThrows
              THEN /\ fallback' = [k \in DOMAIN fallback \ {submissionId}
                                      |-> fallback[k]]
                   /\ pendingIndex' = IF SetItemThrows THEN pendingIndex
                                      ELSE updatedPending(pending, submissionId)
                   /\ removed' = SetKey(removed, submissionId,
                                    IF submissionId \in DOMAIN removed
                                    THEN removed[submissionId] + 1 ELSE 1)
              ELSE UNCHANGED <<fallback, pendingIndex, removed>>
           /\ storageFault' = (storageFault \/ (RetryConfirmed(kind) /\ SetItemThrows))
           /\ loopFrom(pending, Readable(fallback'), sweepIdx, log)
    /\ alert' = ""
    /\ confirmed' = IF RetryConfirmed(kind)
                    THEN confirmed \cup {pending[sweepIdx]}
                    ELSE confirmed
    /\ UNCHANGED backendVars
    /\ UNCHANGED <<formVars, now, draftSlot, screen, uuidCounter, storage>>
    /\ UNCHANGED <<submitVars, loadLog, compressing>>

-----------------------------------------------------------------------------
(* Page load, clock *)

\* the page is loaded: constructor, then init, which ends with loadDraft.
\* Handlers of the previous page that were suspended at an await are gone.
pageLoad ==
    /\ formData' = loadDraft(DefaultFormData, draftSlot, now)[1]
    /\ draftSlot' = loadDraft(DefaultFormData, draftSlot, now)[2]
    /\ entryMode' = "map"
    /\ islandSelect' = ""
    /\ screen' = "start-screen"
    /\ submitPc' = "idle"
    /\ submissionData' = None
    /\ fbData' = None
    /\ photoJobs' = <<>>
    /\ entries' = IF submitPc # "idle" THEN SetEntry("result", "abandoned")
                  ELSE entries
    /\ loadLog' = IF draftSlot = <<>> THEN [age |-> -1, result |-> "absent"]
                  ELSE IF Corrupt(draftSlot[1])
                  THEN [age |-> -1,
                        result |-> IF draftSlot' = <<>> THEN "discarded"
                                   ELSE "ignored"]
                  ELSE [age |-> now - draftSlot[1].timestamp,
                        result |-> IF draftSlot' = <<>> THEN "expired"
                                   ELSE "loaded"]
    /\ compressing' = <<>>
    /\ UNCHANGED <<confirmed, backendVars>>
    /\ sweepPc' = "idle"
    /\ pending' = <<>>
    /\ sweepIdx' = 0
    /\ sweepLog' = IF sweepPc # "idle"
                   THEN [sweepLog EXCEPT !.state = "aborted"] ELSE sweepLog
    /\ alert' = ""
    /\ UNCHANGED <<now, uuidCounter, accepted, removed>>
    /\ UNCHANGED queueVars

\* click on #back-to-location (form screen) and on #back-to-start (location
\* screen): showScreen only, formData is kept
backToLocation ==
    /\ FormOpen
    /\ screen' = "location-screen"
    /\ alert' = ""
    /\ UNCHANGED <<formVars, now, draftSlot, uuidCounter, accepted>>
    /\ UNCHANGED <<submitVars, sweepVars, queueVars, loadLog, compressing, confirmed, backendVars>>

backToStart ==
    /\ screen = "location-screen"
    /\ screen' = "start-screen"
    /\ alert' = ""
    /\ UNCHANGED <<formVars, now, draftSlot, uuidCounter, accepted>>
    /\ UNCHANGED <<submitVars, sweepVars, queueVars, loadLog, compressing, confirmed, backendVars>>

\* click on #manual-init-btn of the start screen: init() runs again on the
\* same object and ends with loadDraft, which merges onto this.formData.
\* setupEventListeners registers every listener a second time.
manualInit ==
    /\ screen = "start-screen"
    /\ submitPc = "idle"
    /\ formData' = loadDraft(formData, draftSlot, now)[1]
    /\ draftSlot' = loadDraft(formData, draftSlot, now)[2]
    /\ loadLog' = IF draftSlot = <<>> \/ GetItemThrows
                  THEN [age |-> -1, result |-> "absent"]
                  ELSE IF Corrupt(draftSlot[1])
                  THEN [age |-> -1,
                        result |-> IF draftSlot' = <<>> THEN "discarded"
                                   ELSE "ignored"]
                  ELSE [age |-> now - draftSlot[1].timestamp,
                        result |-> IF draftSlot' = <<>> THEN "expired"
                                   ELSE "loaded"]
    /\ alert' = ""
    /\ UNCHANGED <<entryMode, islandSelect, now, screen, uuidCounter, accepted>>
    /\ UNCHANGED <<submitVars, sweepVars, queueVars, compressing, confirmed, backendVars>>

\* localStorage starts or stops throwing: the quota is reached or freed,
\* the user blocks or allows site data
storageChange(mode) ==
    /\ mode # storage
    /\ storage' = mode
    /\ alert' = ""
    /\ UNCHANGED <<formVars, now, draftSlot, screen, uuidCounter, accepted,
                   pendingIndex, fallback, storageFault>>
    /\ UNCHANGED <<submitVars, sweepVars, loadLog, compressing, confirmed, backendVars>>

\* d hours pass
tick(d, max) ==
    /\ d > 0
    /\ now + d <= max
    /\ now' = now + d
    /\ alert' = ""
    /\ UNCHANGED <<formVars, draftSlot, screen, uuidCounter, accepted>>
    /\ UNCHANGED <<submitVars, sweepVars, queueVars, loadLog, compressing, confirmed, backendVars>>

-----------------------------------------------------------------------------
(* Specifications *)

Init ==
    /\ formData = DefaultFormData
    /\ entryMode = "map"
    /\ islandSelect = ""
    /\ now = 0
    /\ draftSlot = <<>>
    /\ pendingIndex = <<>>
    /\ fallback = <<>>
    /\ screen = "start-screen"
    /\ alert = ""
    /\ uuidCounter = 0
    /\ submitPc = "idle"
    /\ submissionData = None
    /\ fbData = None
    /\ photoJobs = <<>>
    /\ sweepPc = "idle"
    /\ pending = <<>>
    /\ sweepIdx = 0
    /\ accepted = {}
    /\ entries = <<>>
    /\ removed = <<>>
    /\ sweepLog = NoSweep
    /\ storageFault = FALSE
    /\ loadLog = [age |-> -1, result |-> "none"]
    /\ compressing = <<>>
    /\ confirmed = {}
    /\ sheet = <<>>
    /\ reply = NoReply
    /\ storage = "ok"

\* the fallback queue and the sweeper, on map-mode entries
Next ==
    \/ startBtnClick
    \/ \E c \in Coords : handleLocationSuccess(c)
    \/ confirmLocation
    \/ \E sel \in Selections : handleSearchResultSelect(sel)
    \/ \E v \in LightValues : lightWorkingChange(v)
    \/ \E name \in PhotoNames : handlePhotoUpload(name)
    \/ submitInvalid
    \/ submitStart
    \/ submitConverted
    \/ \E kind \in ResponseKinds : submitResponse(kind)
    \/ \E fault \in StorageFaults : fallbackStore(fault)
    \/ sweepStart
    \/ \E kind \in ResponseKinds : sweepResponse(kind)
    \/ startNewEntry
    \/ pageLoad
    \/ tick(1, MaxClock)

Spec == Init /\ [][Next]_vars

\* the events the application itself handles: the page load, which runs
\* init, and the listeners setupEventListeners registers.  No line of the
\* program calls retryPendingSubmissions, and the MappingApp object is a
\* local constant of the DOMContentLoaded listener.
NextApp ==
    \/ startBtnClick
    \/ \E c \in Coords : handleLocationSuccess(c)
    \/ confirmLocation
    \/ \E sel \in Selections : handleSearchResultSelect(sel)
    \/ \E v \in LightValues : lightWorkingChange(v)
    \/ submitInvalid
    \/ submitStart
    \/ submitConverted
    \/ \E kind \in ResponseKinds : submitResponse(kind)
    \/ \E fault \in StorageFaults : fallbackStore(fault)
    \/ startNewEntry
    \/ pageLoad

\* the application keeps running: an event it can handle is handled
SpecApp == Init /\ [][NextApp]_vars /\ WF_vars(NextApp)

\* the instants at which the handlers of the draft specification run: the
\* first hours, and the hours around the end of the freshness window
DraftInstants == {0, 1, StaleHours - 1, StaleHours, StaleHours + 1, MaxDraftClock}

\* the draft store under every form handler, with the clock running on
\* past the freshness window
NextDraft ==
    \/ startBtnClick
    \/ toggleEntryMode
    \/ \E v \in Islands \cup {""} : islandSelectChange(v)
    \/ \E c \in Coords : handleLocationSuccess(c)
    \/ \E newPos \in DragPositions : markerDragEnd(newPos)
    \/ confirmLocation
    \/ \E sel \in Selections : handleSearchResultSelect(sel)
    \/ \E v \in LightValues : lightWorkingChange(v)
    \/ \E code \in TagCodes, checked \in BOOLEAN : tagChange(code, checked)
    \/ \E text \in NoteTexts : updateNotesCount(text)
    \/ \E name \in PhotoNames : handlePhotoUpload(name)
    \/ \E index \in 1..MaxPhotosModel : removePhoto(index)
    \/ pageLoad
    \/ \E t \in DraftInstants : tick(t - now, MaxDraftClock)

SpecDraft == Init /\ [][NextDraft]_vars

\* the encoder: the form is filled in and submitForm builds the record it
\* hands to fetch
NextEncode ==
    \/ startBtnClick
    \/ \E c \in Coords : handleLocationSuccess(c)
    \/ confirmLocation
    \/ \E sel \in Selections \cup OtherSelections : handleSearchResultSelect(sel)
    \/ \E v \in LightValues : lightWorkingChange(v)
    \/ \E code \in TagCodes \cup OtherTagCodes, checked \in BOOLEAN :
          tagChange(code, checked)
    \/ \E text \in NoteTexts : updateNotesCount(text)
    \/ \E files \in FileLists : handlePhotoUploadFiles(files)
    \/ \E i \in 1..MaxFiles : addPhotoToForm(i)
    \/ \E index \in 1..MaxPhotosModel : removePhoto(index)
    \/ submitInvalid
    \/ submitStart
    \/ submitConverted

SpecEncode == Init /\ [][NextEncode]_vars

\* entries filled through the rapid-entry table
NextTable ==
    \/ startBtnClick
    \/ \E c \in Coords : handleLocationSuccess(c)
    \/ confirmLocation
    \/ \E sel \in TableSelections \cup OtherSelections :
          handleSearchResultSelect(sel)
    \/ \E type \in {"price_item", "pharmacy_stock"} :
          \E i \in 1..Len(tableItems(type)), row \in tableRows(type) :
             updateTableFormData(type, tableItems(type)[i].name, row)
    \/ \E text \in NoteTexts : updateNotesCount(text)
    \/ submitInvalid
    \/ submitStart
    \/ submitConverted

SpecTable == Init /\ [][NextTable]_vars

StorageModes == {"ok", "quota", "disabled"}

\* submissions, the fallback queue and the sweeper on a localStorage that
\* starts and stops throwing
NextFault ==
    \/ startBtnClick
    \/ \E c \in Coords : handleLocationSuccess(c)
    \/ confirmLocation
    \/ \E sel \in Selections : handleSearchResultSelect(sel)
    \/ \E v \in LightValues : lightWorkingChange(v)
    \/ submitInvalid
    \/ submitStart
    \/ submitConverted
    \/ \E kind \in ResponseKinds : submitResponse(kind)
    \/ \E fault \in StorageFaults : fallbackStore(fault)
    \/ sweepStart
    \/ \E kind \in ResponseKinds : sweepResponse(kind)
    \/ startNewEntry
    \/ \E mode \in StorageModes : storageChange(mode)

SpecFault == Init /\ [][NextFault]_vars

\* the form handlers on a localStorage that starts and stops throwing
NextDraftFault ==
    \/ startBtnClick
    \/ toggleEntryMode
    \/ \E v \in Islands \cup {""} : islandSelectChange(v)
    \/ \E c \in Coords : handleLocationSuccess(c)
    \/ \E newPos \in DragPositions : markerDragEnd(newPos)
    \/ confirmLocation
    \/ \E sel \in Selections : handleSearchResultSelect(sel)
    \/ \E v \in LightValues : lightWorkingChange(v)
    \/ \E code \in TagCodes, checked \in BOOLEAN : tagChange(code, checked)
    \/ \E text \in NoteTexts : updateNotesCount(text)
    \/ \E name \in PhotoNames : handlePhotoUpload(name)
    \/ \E index \in 1..MaxPhotosModel : removePhoto(index)
    \/ \E mode \in StorageModes : storageChange(mode)

SpecDraftFault == Init /\ [][NextDraftFault]_vars

\* init run again from the start screen, after the user went back from a
\* form whose last changes the draft store could not take.  Every handler
\* of this specification gives the same result when its listener runs twice.
NextReinit ==
    \/ startBtnClick
    \/ \E c \in Coords : handleLocationSuccess(c)
    \/ confirmLocation
    \/ \E sel \in Selections : handleSearchResultSelect(sel)
    \/ \E v \in LightValues : lightWorkingChange(v)
    \/ \E text \in NoteTexts : updateNotesCount(text)
    \/ backToLocation
    \/ backToStart
    \/ manualInit
    \/ \E mode \in StorageModes : storageChange(mode)

SpecReinit == Init /\ [][NextReinit]_vars

\* the form of the end-to-end scenario, and the payload a failed submission
\* of it leaves in the fallback queue
ScenarioForm ==
    SetKey([DefaultFormData EXCEPT !.lat = "4.1755", !.lon = "73.5093",
                                   !.gps_accuracy_m = "12",
                                   !.category = "streetlight",
                                   !.subcategory = "streetlight"],
           "light_working", "no")

QueuedPayload(id) ==
    fallbackRecord(prepareSubmissionData(ScenarioForm, id, 0), <<>>, <<>>, 0)

\* n submissions have failed and been queued: each used one identifier for
\* the record sent and one for the record queued
InitSweep ==
    \E n \in 0..MaxPending :
        /\ Init!1 /\ Init!2 /\ Init!3 /\ Init!4 /\ Init!5
        /\ pendingIndex = [i \in 1..n |-> 2 * i]
        /\ fallback = [id \in {2 * i : i \in 1..n} |-> QueuedPayload(id)]
        /\ screen = "success-screen"
        /\ alert = ""
        /\ uuidCounter = 2 * n
        /\ submitPc = "idle"
        /\ submissionData = None
        /\ fbData = None
        /\ photoJobs = <<>>
        /\ sweepPc = "idle"
        /\ pending = <<>>
        /\ sweepIdx = 0
        /\ accepted = {}
        /\ entries = [i \in 1..n |-> [sentId |-> 2 * i - 1,
                                      response |-> "network_error",
                                      queuedId |-> 2 * i,
                                      fallbackCalls |-> 1,
                                      result |-> "queued"]]
        /\ removed = <<>>
        /\ sweepLog = NoSweep
        /\ storageFault = FALSE
        /\ loadLog = [age |-> -1, result |-> "none"]
        /\ compressing = <<>>
        /\ confirmed = {}
        /\ sheet = <<>>
        /\ reply = NoReply
        /\ storage = "ok"

\* sweeps over a queue of up to MaxPending entries
NextSweep ==
    \/ sweepStart
    \/ \E kind \in ResponseKinds : sweepResponse(kind)

SpecSweep == InitSweep /\ [][NextSweep]_vars

\* the sweeps under fairness: retryPendingSubmissions keeps being invoked,
\* every fetch settles, and the endpoint does not refuse for ever
SpecSweepLive ==
    /\ SpecSweep
    /\ WF_vars(sweepStart)
    /\ WF_vars(\E kind \in ResponseKinds : sweepResponse(kind))
    /\ SF_vars(sweepResponse("json_success"))

\* a page loaded with n entries in the queue, on which the form of the
\* scenario has been filled; entries counts the submissions of this page
InitRace ==
    \E n \in 0..MaxRaceQueue :
        /\ formData = ScenarioForm
        /\ entryMode = "map"
        /\ islandSelect = ""
        /\ now = 0
        /\ draftSlot = << JSONRoundTrip(Spread(ScenarioForm, [timestamp |-> 0])) >>
        /\ pendingIndex = [i \in 1..n |-> 2 * i]
        /\ fallback = [id \in {2 * i : i \in 1..n} |-> QueuedPayload(id)]
        /\ screen = "form-screen"
        /\ alert = ""
        /\ uuidCounter = 2 * n
        /\ submitPc = "idle"
        /\ submissionData = None
        /\ fbData = None
        /\ photoJobs = <<>>
        /\ sweepPc = "idle"
        /\ pending = <<>>
        /\ sweepIdx = 0
        /\ accepted = {}
        /\ entries = <<>>
        /\ removed = <<>>
        /\ sweepLog = NoSweep
        /\ storageFault = FALSE
        /\ loadLog = [age |-> -1, result |-> "none"]
        /\ compressing = <<>>
        /\ confirmed = {}
        /\ sheet = <<>>
        /\ reply = NoReply
        /\ storage = "ok"

\* a submission that fails and is queued while a sweep is under way
NextRace ==
    \/ submitStart
    \/ submitConverted
    \/ \E kind \in ResponseKinds : submitResponse(kind)
    \/ \E fault \in StorageFaults : fallbackStore(fault)
    \/ sweepStart
    \/ \E kind \in ResponseKinds : sweepResponse(kind)

SpecRace == InitRace /\ [][NextRace]_vars

-----------------------------------------------------------------------------
(* Properties *)

Range(s) == {s[i] : i \in 1..Len(s)}
LastEntry == entries[Len(entries)]
OutcomeId(o) == o[1]
OutcomeKind(o) == o[2]

\* submitForm ended on the success screen for this invocation
SuccessShown(e) == e.result \in {"delivered", "queued"}

\* C1: every submission whose submitForm ended on the success screen has
\* been stored by the endpoint, or its payload is still stored and its
\* identifier is still in the pending index.
NoSilentDataLoss ==
    \A n \in 1..Len(entries) :
        SuccessShown(entries[n]) =>
            \/ entries[n].sentId \in accepted
            \/ entries[n].queuedId \in accepted
            \/ /\ Includes(pendingIndex, entries[n].queuedId)
               /\ entries[n].queuedId \in DOMAIN fallback

\* a finished sweep whose snapshot entries all had their payload stored
FullSweepDone ==
    /\ sweepLog.state = "done"
    /\ sweepLog.stored = Range(sweepLog.snapshot)
    /\ Len(sweepLog.outcomes) = Len(sweepLog.snapshot)

\* C2: after a sweep in which the transport succeeded for every one of the
\* N pending entries, the pending index is empty, no payload is left and
\* every entry was removed exactly once.
SweepConvergence ==
    ( /\ FullSweepDone
      /\ \A i \in 1..Len(sweepLog.outcomes) :
            EndpointStores(OutcomeKind(sweepLog.outcomes[i])) )
    => /\ pendingIndex = <<>>
       /\ DOMAIN fallback = {}
       /\ \A id \in Range(sweepLog.snapshot) : Get(removed, id) = 1

\* C3: after a sweep of [A, B, C] in which the transport failed only for B,
\* the pending index is exactly [B] and only the payload of B is left.
PartialFailureIsolation ==
    ( /\ FullSweepDone
      /\ Len(sweepLog.snapshot) = 3
      /\ EndpointStores(OutcomeKind(sweepLog.outcomes[1]))
      /\ ~ResponseOk(OutcomeKind(sweepLog.outcomes[2]))
      /\ EndpointStores(OutcomeKind(sweepLog.outcomes[3])) )
    => /\ pendingIndex = <<sweepLog.snapshot[2]>>
       /\ DOMAIN fallback = {sweepLog.snapshot[2]}

\* C4: when no storage operation has failed and no enqueue or sweep is
\* running, every identifier of the pending index has a stored payload.
IndexPayloadConsistency ==
    (~storageFault /\ sweepPc = "idle" /\ submitPc = "idle")
    => \A i \in 1..Len(pendingIndex) : pendingIndex[i] \in DOMAIN fallback

\* C5: an entry whose retry the endpoint answered with a failure (network
\* error, non-2xx status, or a JSON body with success false) keeps its
\* payload and its index reference.
RemoveOnlyAfterConfirmedSuccess ==
    \A i \in 1..Len(sweepLog.outcomes) :
        ~EndpointStores(OutcomeKind(sweepLog.outcomes[i]))
        => /\ OutcomeId(sweepLog.outcomes[i]) \in DOMAIN fallback
           /\ Includes(pendingIndex, OutcomeId(sweepLog.outcomes[i]))

\* the step in which tryFallbackStorage returns true after a transport failure
QueuedStep ==
    /\ submitPc = "fallback_converting"
    /\ LastEntry.response # "none"
    /\ submitPc' = "idle"
    /\ entries'[Len(entries)].result = "queued"

\* the attachments of a stored payload and of a record sent, as
\* (mime type, base64 data) pairs
PayloadAttachments(p) ==
    [i \in 1..Len(p.photos) |-> <<p.photos[i].data.mime, p.photos[i].data.base64>>]
RecordAttachments(r) ==
    [i \in 1..Len(r.photos) |-> <<r.photos[i].mimeType, r.photos[i].data>>]

SameCanonical(p, r) ==
    /\ \A k \in {"lat", "lon", "gps_accuracy_m", "category", "subcategory",
                 "tags", "notes"} : p[k] = r[k]
    /\ Get(p, "rapid_entry_data") = Get(r, "rapid_entry_data")
    /\ PayloadAttachments(p) = RecordAttachments(r)

\* C6: when the transport attempt failed and tryFallbackStorage returned
\* true, the pending index contains the identifier of the record that was
\* handed to the transport, and the payload stored under it has the same
\* canonical field values as that record.
FallbackDurability ==
    [][QueuedStep =>
         LET id == submissionData.submission_id
         IN  /\ Includes(pendingIndex', id)
             /\ id \in DOMAIN fallback'
             /\ SameCanonical(fallback'[id], submissionData)]_vars

\* C7: the record handed to tryFallbackStorage after a transport failure
\* has the identifier and the timestamp of the record that was sent.
IdentifierAssignedOnce ==
    (submitPc = "fallback_converting" /\ LastEntry.response # "none")
    => /\ fbData.submission_id = submissionData.submission_id
       /\ fbData.submitted_at_iso = submissionData.submitted_at_iso

\* C8: a submission answered with HTTP 200 and a non-JSON body is
\* delivered, and nothing is queued for it.
OpaqueBodyIsSuccess ==
    \A n \in 1..Len(entries) :
        entries[n].response = "opaque_200"
        => entries[n].result = "delivered" /\ entries[n].queuedId = 0

\* C9: loadDraft run 25 hours after the draft was saved leaves formData at
\* the defaults and removes the slot; run 23 hours after, it keeps the slot
\* and formData has every stored field.
Staleness ==
    [][(pageLoad /\ draftSlot # <<>>) =>
         LET draft == draftSlot[1]
             age   == now - draft.timestamp
         IN  /\ age = 25 => (formData' = DefaultFormData /\ draftSlot' = <<>>)
             /\ age = 23 => /\ draftSlot' = draftSlot
                            /\ \A k \in DOMAIN draft : k \in DOMAIN formData'
                                                       /\ formData'[k] = draft[k]]_vars

\* a draft saved at T has been found stale by a loadDraft at T + 25h
StaleDraftDiscarded ==
    /\ loadLog = [age |-> 25, result |-> "expired"]
    /\ draftSlot = <<>>
    /\ formData = DefaultFormData
    /\ screen = "start-screen"

\* C10: a page load within the freshness window, with the slot holding the
\* snapshot saveDraft made of formData, restores every field of formData.
DraftRoundTrip ==
    [][( /\ pageLoad
         /\ draftSlot # <<>>
         /\ draftSlot = saveDraft(formData, draftSlot[1].timestamp)
         /\ now - draftSlot[1].timestamp < StaleHours )
       => \A k \in DOMAIN formData \ {"timestamp"} :
             formData'[k] = formData[k]]_vars

-----------------------------------------------------------------------------
(* Encoder properties *)

\* the record is in the hands of fetch
Handed == submitPc = "fetching"

\* the columns of the sheet that neither prepareSubmissionData nor the
\* photos array fills: the fields of the dynamic part of the form
DynamicHeaders ==
    Range(headers) \ (DOMAIN prepareSubmissionData(DefaultFormData, 0, 0)
                         \cup photoHeaders)

\* C11: the record handed to the transport has the same field keys for
\* every validated form, and every canonical dynamic field is one of them,
\* with the empty string when the form has no value for it.
StableFieldSet ==
    Handed =>
        /\ DOMAIN submissionData \ DynamicHeaders =
              DOMAIN prepareSubmissionData(DefaultFormData, 0, 0) \cup {"photos"}
        /\ \A k \in DynamicHeaders :
              /\ k \in DOMAIN submissionData
              /\ Falsy(Get(formData, k)) => submissionData[k] = ""

\* C12: for the streetlight form with light_working 'no', the tag 'urgent'
\* and one attachment, the record handed to the transport has category
\* 'streetlight', tags 'urgent', light_working 'no', an identifier, a
\* timestamp and exactly one encoded attachment.
DynamicValuesOnWire ==
    ( /\ Handed
      /\ formData.category = "streetlight"
      /\ formData.subcategory = "streetlight"
      /\ Get(formData, "light_working") = "no"
      /\ formData.tags = <<"urgent">>
      /\ Len(formData.photos) = 1 )
    => /\ submissionData.category = "streetlight"
       /\ submissionData.tags = "urgent"
       /\ Get(submissionData, "light_working") = "no"
       /\ submissionData.submission_id \in 1..uuidCounter
       /\ submissionData.submitted_at_iso = toISOString(now)
       /\ Len(submissionData.photos) = 1
       /\ submissionData.photos[1] = [mimeType |-> "image/jpeg", data |-> "p1"]

RECURSIVE TagStrings(_)
\* the strings that list the codes of S once each, between two codes one ';'
TagStrings(S) ==
    IF S = {} THEN {""}
    ELSE UNION { IF S = {a} THEN {a}
                 ELSE {a \o ";" \o r : r \in TagStrings(S \ {a})} : a \in S }

NoDuplicates(s) == \A i, j \in 1..Len(s) : s[i] = s[j] => i = j

\* C13: a tag event leaves every code of formData.tags there exactly once,
\* the code checked is in it, the code unchecked is not, the other codes stay
\* as they were; the tags field of the record built from it lists exactly
\* these codes with single ';' between them.
TagsEncoding ==
    [][ /\ \A code \in TagCodes \cup OtherTagCodes, checked \in BOOLEAN :
             tagChange(code, checked) =>
                /\ NoDuplicates(formData'.tags)
                /\ Includes(formData'.tags, code) <=> checked
                /\ Range(formData'.tags) \ {code} = Range(formData.tags) \ {code}
        /\ submitStart =>
             submissionData'.tags \in TagStrings(Range(formData.tags))
      ]_vars

\* both tags were checked and the record built from the form is with fetch
TwoTagsEncoded ==
    /\ Handed
    /\ Len(formData.tags) = 2
    /\ submissionData.tags = "urgent;verified"

-----------------------------------------------------------------------------
(* Outcome properties *)

\* what the user sees when submitForm returns after a confirmed delivery:
\* the success screen and no message
DeliveredOutcome == <<"success-screen", "">>

\* the message of the else branch of the catch block
SavedLocallyMessage ==
    "Failed to submit data. Your entry has been saved locally and will be retried later."

\* a validated submitForm invocation returns
SubmitReturns ==
    /\ submitPc # "idle"
    /\ submitPc' = "idle"
    /\ Len(entries') = Len(entries)
    /\ entries'[Len(entries)].result \in {"delivered", "queued", "error"}

\* C14: when delivery failed and the record was queued, the user is told
\* that the entry was saved locally and will be retried; what is shown is
\* not what is shown for a delivered submission.
QueuedOutcomeShown ==
    [][QueuedStep => /\ <<screen', alert'>> # DeliveredOutcome
                     /\ alert' # ""]_vars

\* C15: a validated submitForm invocation ends with an error shown exactly
\* when the record was neither delivered nor queued, and whenever its
\* message says the entry was saved locally, the identifier of the record
\* handed to the fallback queue is in the pending index.
ErrorOnlyOnDoubleFault ==
    [][SubmitReturns =>
         /\ (alert' # "") <=> (entries'[Len(entries)].result = "error")
         /\ alert' = SavedLocallyMessage =>
               Includes(pendingIndex', fbData.submission_id)]_vars

\* C16: after a confirmed delivery and after startNewEntry the draft slot
\* is empty and formData is the default form, whether or not removeItem
\* throws.
ClearedAfterDelivery ==
    [][( \/ startNewEntry
         \/ SubmitReturns /\ entries'[Len(entries)].result = "delivered" )
       => draftSlot' = <<>> /\ formData' = DefaultFormData]_vars

\* C20: no storage failure leaves the fallback queue or the sweeper: an
\* enqueue that meets a throwing storage operation ends with
\* tryFallbackStorage returning false, and no sweep ends with its promise
\* rejected.
NoStorageFailurePropagates ==
    [][ /\ (submitPc = "fallback_converting" /\ SetItemThrows /\ submitPc' = "idle")
            => entries'[Len(entries)].result = "error"
        /\ sweepLog'.state # "rejected" ]_vars

\* C17: with a throwing storage write, saveDraft returns to its caller:
\* the handler shows no error and completes (confirmLocation goes on to the
\* form screen), the slot keeps its content, and formData holds what the
\* handler put there.
SaveDraftNeverFailsCaller ==
    [][SetItemThrows =>
         /\ (confirmLocation /\ alert' = "") =>
                /\ screen' = "form-screen"
                /\ draftSlot' = draftSlot
                /\ entryMode = "map" => formData' = formData
                /\ entryMode # "map" => formData'.lat = islandSelect
         /\ \A sel \in Selections : handleSearchResultSelect(sel) =>
                /\ formData'.subcategory = sel.subcategory
                /\ draftSlot' = draftSlot /\ alert' = ""
         /\ \A v \in LightValues : lightWorkingChange(v) =>
                /\ formData'.light_working = v
                /\ draftSlot' = draftSlot /\ alert' = ""
         /\ \A code \in TagCodes : tagChange(code, TRUE) =>
                /\ Includes(formData'.tags, code)
                /\ draftSlot' = draftSlot /\ alert' = ""
         /\ \A text \in NoteTexts : updateNotesCount(text) =>
                /\ formData'.notes = text
                /\ draftSlot' = draftSlot /\ alert' = ""
         /\ \A name \in PhotoNames : handlePhotoUpload(name) =>
                /\ formData'.photos = Append(formData.photos, File(name))
                /\ draftSlot' = draftSlot /\ alert' = ""
      ]_vars

\* the form was reached and filled in while no draft could be written
DraftWriteAbsorbed ==
    /\ storage # "ok"
    /\ screen = "form-screen"
    /\ draftSlot = <<>>
    /\ Get(formData, "light_working") = "no"
    /\ formData.tags = <<"urgent">>

\* C18: when a handler has changed formData and the storage write
\* succeeds, the draft slot holds the snapshot of the new formData.
WriteThrough ==
    [][(formData' # formData /\ ~pageLoad /\ ~SetItemThrows)
       => draftSlot' = << JSONRoundTrip(Spread(formData', [timestamp |-> now])) >>
      ]_vars

\* C19: a submitForm invocation whose transport attempt failed has called
\* tryFallbackStorage exactly once, one whose delivery was confirmed has
\* not called it, and the pending index grows by one identifier at a time,
\* in the step that ends tryFallbackStorage, once per invocation.
FallbackOncePerAttempt ==
    [][ /\ \A n \in 1..Len(entries') :
             LET e == entries'[n]
             IN  /\ e.result = "delivered" => e.fallbackCalls = 0
                 /\ (e.response # "none" /\ ~SubmitConfirmed(e.response))
                       => e.fallbackCalls = 1
        /\ Len(pendingIndex') > Len(pendingIndex) =>
             /\ submitPc = "fallback_converting"
             /\ LastEntry.queuedId = 0
             /\ pendingIndex' = Append(pendingIndex, entries'[Len(entries)].queuedId)
      ]_vars

\* a submission answered with HTTP 500 was handed to tryFallbackStorage
\* once and is queued
FailedOnceQueued ==
    /\ Len(entries) > 0
    /\ LastEntry.response = "http_500"
    /\ LastEntry.result = "queued"
    /\ LastEntry.fallbackCalls = 1
    /\ pendingIndex = <<LastEntry.queuedId>>

-----------------------------------------------------------------------------
(* Photo limit *)

\* C21: in every reachable state, after any interleaving of photo
\* selections and compression callbacks, formData.photos holds no more
\* photos than the configured maximum max_photos
PhotoLimit == Len(formData.photos) <= max_photos

-----------------------------------------------------------------------------
(* Rapid-entry table *)

\* a row of the table of the selected subcategory is filled
TableFilled ==
    /\ screen = "form-screen"
    /\ ~Falsy(formData.lat)
    /\ IsRapidEntry(formData.subcategory)
    /\ rapidEntryData(formData) # ""

\* C22: a form state reached by confirming a location, selecting
\* price_item or pharmacy_stock and filling rows of the rapid-entry table
\* passes validateForm
TableEntryValid ==
    TableFilled => validateForm(formData, entryMode, islandSelect) = ""

-----------------------------------------------------------------------------
(* Staleness threshold *)

\* C23: loadDraft treats a stored draft as stale exactly when its age is
\* above 24 hours: at an age of exactly 24 hours or below the draft is
\* loaded and its slot kept, above it the draft is treated as absent and
\* its slot removed
StalenessThreshold ==
    [][(pageLoad /\ draftSlot # <<>>) =>
         LET draft == draftSlot[1]
             age   == now - draft.timestamp
         IN  /\ age > StaleHours =>
                   (formData' = DefaultFormData /\ draftSlot' = <<>>)
             /\ age <= StaleHours =>
                   /\ draftSlot' = draftSlot
                   /\ \A k \in DOMAIN draft : k \in DOMAIN formData'
                                              /\ formData'[k] = draft[k]]_vars

-----------------------------------------------------------------------------
(* Merge of a loaded draft *)

\* C24: loadDraft of a fresh draft merges the stored fields onto a freshly
\* initialised default FormState: afterwards every default field is
\* present, a field absent from the stored draft has its default value and
\* not the value formData held before the load, and stored fields override
\* the defaults
MergeOntoDefault ==
    [][(manualInit /\ draftSlot # <<>> /\ ~GetItemThrows
        /\ now - draftSlot[1].timestamp < StaleHours) =>
          formData' = Spread(DefaultFormData, draftSlot[1])]_vars

-----------------------------------------------------------------------------
(* The sweep and its snapshot *)

\* C25: a sweep works on the pending index as it was at its start: every
\* identifier it submits, and the one it is submitting, is in the snapshot,
\* so an identifier enqueued while the sweep waits for an answer is not
\* submitted by that pass
SweepOnSnapshot ==
    /\ \A i \in 1..Len(sweepLog.outcomes) :
          Includes(sweepLog.snapshot, sweepLog.outcomes[i][1])
    /\ sweepPc = "fetching" =>
          /\ pending = sweepLog.snapshot
          /\ Includes(sweepLog.snapshot, pending[sweepIdx])

\* a sweep has ended during which a submission was queued: the payload of
\* that submission is stored and no request of the sweep was for it
EnqueuedMidSweep ==
    /\ sweepLog.state = "done"
    /\ sweepLog.concurrent
    /\ Len(sweepLog.outcomes) >= 1
    /\ \E id \in DOMAIN fallback :
          /\ ~Includes(sweepLog.snapshot, id)
          /\ \A i \in 1..Len(sweepLog.outcomes) : sweepLog.outcomes[i][1] # id

\* the outcomes of the sweep for one identifier
OutcomesOf(id) ==
    {i \in 1..Len(sweepLog.outcomes) : OutcomeId(sweepLog.outcomes[i]) = id}

\* every identifier of the snapshot whose payload was stored has been
\* submitted exactly once by the finished sweep
EachSubmittedOnce ==
    sweepLog.state = "done" =>
        /\ \A id \in sweepLog.stored : Cardinality(OutcomesOf(id)) = 1
        /\ Len(sweepLog.outcomes) = Cardinality(sweepLog.stored)

\* C26: no early abort: a finished sweep has submitted every identifier of
\* its snapshot whose payload loads exactly once, whatever the answers to
\* the identifiers before it, and an entry whose retry failed still has
\* its payload and its index reference
NoEarlyAbort ==
    /\ EachSubmittedOnce
    /\ sweepLog.state = "done" =>
          \A i \in 1..Len(sweepLog.outcomes) :
              ~EndpointStores(OutcomeKind(sweepLog.outcomes[i]))
              => /\ OutcomeId(sweepLog.outcomes[i]) \in DOMAIN fallback
                 /\ Includes(pendingIndex, OutcomeId(sweepLog.outcomes[i]))

\* C27: a sweep started with an empty or absent pending index issues no
\* network request, changes nothing in storage and returns normally,
\* however often it is repeated
EmptySweepNoOp ==
    [][(sweepStart /\ pendingIndex = <<>>) =>
         /\ UNCHANGED <<pendingIndex, fallback, draftSlot, accepted, removed>>
         /\ sweepPc' = "idle"
         /\ sweepLog'.state = "nothing_pending"]_vars

\* a sweep has found nothing pending after an earlier sweep emptied the index
SweptWhenEmpty ==
    /\ sweepLog.state = "nothing_pending"
    /\ pendingIndex = <<>>
    /\ removed # <<>>

-----------------------------------------------------------------------------
(* Encoding before transport *)

\* C29: submitForm calls fetch only from the point where every photo
\* conversion has resolved, and the record it sends carries one encoded
\* photo for each photo formData held when the conversions started, in
\* order, whatever was attached or removed in between
EncodingBeforeTransport ==
    [][ /\ (submitPc = "idle" /\ submitPc' = "converting") =>
              photoJobs' = formData.photos
        /\ (submitPc # "fetching" /\ submitPc' = "fetching") =>
              /\ submitPc = "converting"
              /\ AllConvert(photoJobs)
              /\ submissionData'.photos =
                    [i \in 1..Len(photoJobs) |->
                        [mimeType |-> photoJobs[i].type,
                         data |-> photoJobs[i].bytes]] ]_vars

\* a record with two encoded photos is in the hands of fetch, and a
\* compression callback has attached a third photo since the conversions
\* started
SentWhileAttaching ==
    /\ Handed
    /\ Len(submissionData.photos) = 2
    /\ Len(formData.photos) = 3

-----------------------------------------------------------------------------
(* Order of the pending index *)

\* the identifiers a and b stand in the same order in s and in t
SameOrder(s, t, a, b) ==
    \A i, j \in 1..Len(s), k, l \in 1..Len(t) :
        (s[i] = a /\ s[j] = b /\ t[k] = a /\ t[l] = b /\ i < j) => k < l

\* C30: the pending index lists identifiers in the order in which they
\* were enqueued, which is the order in which generateUUID produced them,
\* and every write of the index by the sweep keeps the relative order of
\* the entries that remain
FifoOrder ==
    [][ /\ \A i, j \in 1..Len(pendingIndex') :
              i < j => pendingIndex'[i] < pendingIndex'[j]
        /\ \A a, b \in Range(pendingIndex) \cap Range(pendingIndex') :
              SameOrder(pendingIndex, pendingIndex', a, b) ]_vars

\* a sweep has removed an entry from an index that held an entry enqueued
\* on this page, and two entries remain
OrderedAfterSweep ==
    /\ sweepLog.state = "done"
    /\ Len(sweepLog.snapshot) >= 3
    /\ removed # <<>>
    /\ Len(pendingIndex) >= 2
    /\ Len(entries) >= 1

-----------------------------------------------------------------------------
(* Delivered is terminal *)

\* a step in which the sweep calls fetch for the identifier it has moved to
SweepTransmits ==
    /\ sweepPc' = "fetching"
    /\ sweepPc = "idle" \/ sweepIdx' # sweepIdx

\* C31: once the client has taken the delivery of a submission as
\* confirmed, in submitForm or in a sweep, no later sweep and no later
\* submit transmits that submission again
DeliveredIsTerminal ==
    [][ /\ SweepTransmits => pending'[sweepIdx'] \notin confirmed'
        /\ (submitPc # "fetching" /\ submitPc' = "fetching") =>
              submissionData'.submission_id \notin confirmed ]_vars

-----------------------------------------------------------------------------
(* Eventual delivery *)

\* C32: when sweeps keep being invoked, the endpoint eventually succeeds
\* for every request and no storage operation fails, every queued entry is
\* eventually delivered and the pending index eventually becomes and stays
\* empty
EventualDelivery ==
    /\ <>[](pendingIndex = <<>>)
    /\ \A id \in {2 * i : i \in 1..MaxPending} :
          (id \in DOMAIN fallback) ~> (id \in accepted)

-----------------------------------------------------------------------------
(* Retry of queued submissions *)

\* C33: while the application runs, a queued submission is retried: some
\* event the application handles invokes retryPendingSubmissions, which
\* transmits an entry of the pending index again
QueuedIsRetried ==
    (pendingIndex # <<>>) ~> (sweepPc = "fetching")


\* ---------------------------------------------------------------------
\* Backend (Apps Script web app): doPost and what it calls.
\* A JavaScript value of the request is a record: its type, its number in
\* units of 1/Scale, and its characters when it is a string.
\* ---------------------------------------------------------------------

MaxRows == 1
Scale == 10000

JNum(n) == [t |-> "number", n |-> n, s |-> <<>>]
JStr(chars) == [t |-> "string", n |-> 0, s |-> chars]
JUndefined == [t |-> "undefined", n |-> 0, s |-> <<>>]
NaN == [t |-> "NaN", n |-> 0, s |-> <<>>]

\* !v
Not(v) ==
    \/ v.t \in {"undefined", "NaN"}
    \/ v.t = "number" /\ v.n = 0
    \/ v.t = "string" /\ v.s = <<>>

isNaN(v) == v.t = "NaN"

DigitVal == [c \in {"0", "1", "2", "3", "4", "5", "6", "7", "8", "9"} |->
                CASE c = "0" -> 0 [] c = "1" -> 1 [] c = "2" -> 2 [] c = "3" -> 3
                  [] c = "4" -> 4 [] c = "5" -> 5 [] c = "6" -> 6 [] c = "7" -> 7
                  [] c = "8" -> 8 [] c = "9" -> 9]

\* the number of digits of chars from position i on
RECURSIVE digitRun(_, _)
digitRun(chars, i) ==
    IF i <= Len(chars) /\ chars[i] \in DOMAIN DigitVal
    THEN 1 + digitRun(chars, i + 1)
    ELSE 0

\* the value of the digits chars[i..j], read as an integer
RECURSIVE digitsValue(_, _, _)
digitsValue(chars, i, j) ==
    IF j < i THEN 0
    ELSE 10 * digitsValue(chars, i, j - 1) + DigitVal[chars[j]]

\* the fraction digits chars[i..j] in units of 1/Scale (four places kept)
fractionValue(chars, i, j) ==
    LET kept == IF j - i + 1 > 4 THEN 4 ELSE j - i + 1
        pad  == CASE kept = 0 -> Scale [] kept = 1 -> 1000 [] kept = 2 -> 100
                  [] kept = 3 -> 10 [] kept = 4 -> 1
    IN  IF kept = 0 THEN 0 ELSE digitsValue(chars, i, i + kept - 1) * pad

RECURSIVE leadingSpaces(_, _)
leadingSpaces(chars, i) ==
    IF i <= Len(chars) /\ chars[i] = " " THEN 1 + leadingSpaces(chars, i + 1) ELSE 0

\* parseFloat(v): the longest numeric prefix of the string of v, NaN without one
parseFloat(v) ==
    IF v.t = "number" THEN v
    ELSE IF v.t # "string" THEN NaN
    ELSE LET chars   == v.s
             start   == 1 + leadingSpaces(chars, 1)
             signed  == start <= Len(chars) /\ chars[start] \in {"-", "+"}
             sign    == IF signed /\ chars[start] = "-" THEN -1 ELSE 1
             first   == IF signed THEN start + 1 ELSE start
             whole   == digitRun(chars, first)
             dot     == first + whole
             hasDot  == dot <= Len(chars) /\ chars[dot] = "."
             decimal == IF hasDot THEN digitRun(chars, dot + 1) ELSE 0
         IN  IF whole = 0 /\ decimal = 0 THEN NaN
             ELSE JNum(sign * (digitsValue(chars, first, first + whole - 1) * Scale
                               + fractionValue(chars, dot + 1, dot + decimal)))

requiredFields ==
    <<"submission_id", "submitted_at_iso", "lat", "lon",
      "category", "subcategory", "consent_confirmed">>

Yes == <<"y", "e", "s">>

\* the first required field of data that is falsy, 0 when there is none
RECURSIVE firstMissing(_, _)
firstMissing(data, i) ==
    IF i > Len(requiredFields) THEN 0
    ELSE IF Not(data[requiredFields[i]]) THEN i
    ELSE firstMissing(data, i + 1)

validateSubmission(data) ==
    LET missing == firstMissing(data, 1)
        lat == parseFloat(data.lat)
        lon == parseFloat(data.lon)
    IN  IF missing # 0
        THEN [valid |-> FALSE,
              error |-> "Missing required field: " \o requiredFields[missing]]
        ELSE IF isNaN(lat) \/ lat.n < -90 * Scale \/ lat.n > 90 * Scale
        THEN [valid |-> FALSE, error |-> "Invalid latitude value"]
        ELSE IF isNaN(lon) \/ lon.n < -180 * Scale \/ lon.n > 180 * Scale
        THEN [valid |-> FALSE, error |-> "Invalid longitude value"]
        ELSE IF data.consent_confirmed # JStr(Yes)
        THEN [valid |-> FALSE, error |-> "Consent not confirmed"]
        ELSE [valid |-> TRUE, error |-> ""]

createSuccessResponse(rowNumber) ==
    [success |-> TRUE, error |-> "", statusCode |-> 0, row_number |-> rowNumber]

createErrorResponse(message, statusCode) ==
    [success |-> FALSE, error |-> message, statusCode |-> statusCode, row_number |-> 0]

\* what the platform answers when doPost itself throws
Unhandled == [success |-> FALSE, error |-> "unhandled", statusCode |-> 0, row_number |-> 0]

\* the body of a request: none, a multipart body with a "data" part whose
\* text parses or does not parse as JSON, or text that has no such part
Bodies == {"empty", "multipart", "multipart_bad_json", "json_text"}

\* parseFormData(e): the parsed data, or the error it throws
parseFormData(e) ==
    CASE e.body = "empty" ->
            [threw |-> TRUE, message |-> "No data received", data |-> e.data]
      [] e.body = "json_text" ->
            [threw |-> TRUE, message |-> "No JSON data found in request", data |-> e.data]
      [] e.body = "multipart_bad_json" ->
            [threw |-> TRUE, message |-> "Unexpected token", data |-> e.data]
      [] e.body = "multipart" ->
            [threw |-> FALSE, message |-> "", data |-> e.data]

\* processPhotos(photos, submissionId): the URLs of the photos it stored; a
\* failure of the Drive service is caught and yields no URL
processPhotos(photos, driveFails) ==
    IF photos = 0 \/ driveFails THEN <<>>
    ELSE [i \in 1..photos |-> JStr(<<"u", "r", "l">>)]

\* addPhotoUrlsToData(data, photoUrls), with the first photo column modelled
addPhotoUrlsToData(data, photoUrls) ==
    [f \in DOMAIN data \cup {"photo_1_url"} |->
        IF f = "photo_1_url"
        THEN IF Len(photoUrls) >= 1 THEN photoUrls[1] ELSE JStr(<<>>)
        ELSE data[f]]

\* data.field || ''
OrEmpty(v) == IF Not(v) THEN JStr(<<>>) ELSE v

\* the row of the sheet, its modelled columns in the order of the required fields
prepareRowData(data) == [f \in DOMAIN data |-> OrEmpty(data[f])]

\* the spreadsheet service: works, or throws when opened or when appending
SheetFaults == {"none", "open", "append"}

appendToSheet(rows, data, fault) ==
    IF fault = "none"
    THEN [success |-> TRUE, error |-> "", rows |-> Append(rows, prepareRowData(data)),
          rowNumber |-> Len(rows) + 2]
    ELSE [success |-> FALSE, error |-> "Service error", rows |-> rows, rowNumber |-> 0]

clientVars == <<formData, entryMode, islandSelect, now, draftSlot, pendingIndex,
                fallback, screen, alert, uuidCounter, submitPc, submissionData,
                fbData, photoJobs, sweepPc, pending, sweepIdx, accepted, entries,
                removed, sweepLog, storageFault, loadLog, compressing, confirmed,
                storage>>

doPost_noValidation(e) ==
    /\ LET formData_   == parseFormData(e)
           photoUrls   == processPhotos(e.photos, e.driveFails)
           submissionData_ == addPhotoUrlsToData(formData_.data, photoUrls)
           sheetResult == appendToSheet(sheet, submissionData_, e.sheetFault)
       IN  IF formData_.threw
           THEN /\ reply' = createErrorResponse("Internal server error: " \o formData_.message, 500)
                /\ sheet' = sheet
           ELSE /\ Len(sheet) < MaxRows
                /\ sheet' = sheetResult.rows
                /\ reply' = IF sheetResult.success
                            THEN createSuccessResponse(sheetResult.rowNumber)
                            ELSE createErrorResponse("Failed to save to sheet: " \o sheetResult.error, 500)
    /\ UNCHANGED clientVars

doPost(e) ==
    /\ LET formData_        == parseFormData(e)
           validationResult == validateSubmission(formData_.data)
           photoUrls        == processPhotos(e.photos, e.driveFails)
           submissionData_  == addPhotoUrlsToData(formData_.data, photoUrls)
           sheetResult      == appendToSheet(sheet, submissionData_, e.sheetFault)
       IN  IF formData_.threw
           THEN /\ reply' = createErrorResponse("Internal server error: " \o formData_.message, 500)
                /\ sheet' = sheet
           ELSE IF ~validationResult.valid
           THEN /\ reply' = createErrorResponse(validationResult.error, 400)
                /\ sheet' = sheet
           ELSE /\ Len(sheet) < MaxRows
                /\ sheet' = sheetResult.rows
                /\ reply' = IF sheetResult.success
                            THEN createSuccessResponse(sheetResult.rowNumber)
                            ELSE createErrorResponse("Failed to save to sheet: " \o sheetResult.error, 500)
    /\ UNCHANGED clientVars

\* the values a request carries in lat, lon and consent_confirmed
LatValues ==
    {JNum(-90 * Scale), JNum(90 * Scale), JNum(0), JNum(41755),
     JNum(90 * Scale + 1), JNum(-90 * Scale - 1),
     JStr(<<"9", "0">>), JStr(<<"-", "9", "0", ".", "0">>), JStr(<<"0">>),
     JStr(<<"9", "1">>), JStr(<<"M", "a", "l", "e">>), JStr(<<"4", ".", "5", "x">>)}

LonValues ==
    {JNum(-180 * Scale), JNum(180 * Scale), JNum(0), JNum(735093),
     JNum(180 * Scale + 1),
     JStr(<<"I", "S", "L", "A", "N", "D", "_", "E", "N", "T", "R", "Y">>)}

ConsentValues == {JStr(Yes), JStr(<<"n", "o">>), JUndefined}

\* the required field a request leaves out, if any
Omissions == {"none", "submission_id", "subcategory"}

Datum(lat, lon, consent, omitted) ==
    [f \in {requiredFields[i] : i \in 1..Len(requiredFields)} |->
        CASE f = "lat" -> lat
          [] f = "lon" -> lon
          [] f = "consent_confirmed" -> consent
          [] OTHER -> IF f = omitted THEN JUndefined ELSE JStr(<<"x">>)]

\* the photo parts of a request and whether the Drive service fails on them
PhotoCases == {[photos |-> 0, driveFails |-> FALSE], [photos |-> 1, driveFails |-> FALSE],
               [photos |-> 1, driveFails |-> TRUE]}

Request(b, data, pc, sf) ==
    [body |-> b, data |-> data, photos |-> pc.photos, driveFails |-> pc.driveFails,
     sheetFault |-> sf]

NoPhotos == [photos |-> 0, driveFails |-> FALSE]

MaleLocation == <<JNum(41755), JNum(735093)>>

\* the requests sent to the web app: well-formed ones over the coordinate
\* values, over the consent values and omissions, and under every photo and
\* sheet outcome, and bodies that parseFormData cannot read
Requests ==
    {Request("multipart", Datum(lat, lon, JStr(Yes), "none"), NoPhotos, "none") :
        lat \in LatValues, lon \in LonValues}
    \cup
    {Request("multipart", Datum(MaleLocation[1], MaleLocation[2], c, o), NoPhotos, "none") :
        c \in ConsentValues, o \in Omissions}
    \cup
    {Request("multipart", Datum(MaleLocation[1], MaleLocation[2], JStr(Yes), "none"), pc, sf) :
        pc \in PhotoCases, sf \in SheetFaults}
    \cup
    {Request(b, Datum(MaleLocation[1], MaleLocation[2], JStr(Yes), "none"), NoPhotos, "none") :
        b \in Bodies}

NextBackend == \E e \in Requests : doPost(e)

SpecBackend == Init /\ [][NextBackend]_vars

\* the data of the last row, read back as a submission
LastRow == sheet[Len(sheet)]

Numeric(v) ==
    \/ v.t = "number"
    \/ /\ v.t = "string"
       /\ ~isNaN(parseFloat(v))
       /\ \A i \in 1..Len(v.s) : v.s[i] \in DOMAIN DigitVal \cup {"-", "+", "."}

\* a field is supplied when the request carries a value other than the empty string
Supplied(v) == v.t # "undefined" /\ v # JStr(<<>>)

\* the submissions that must be accepted: every required field supplied,
\* consent 'yes', latitude in [-90, 90] and longitude in [-180, 180]
Acceptable(data) ==
    /\ \A i \in 1..Len(requiredFields) : Supplied(data[requiredFields[i]])
    /\ data.consent_confirmed = JStr(Yes)
    /\ Numeric(data.lat) /\ Numeric(data.lon)
    /\ parseFloat(data.lat).n >= -90 * Scale /\ parseFloat(data.lat).n <= 90 * Scale
    /\ parseFloat(data.lon).n >= -180 * Scale /\ parseFloat(data.lon).n <= 180 * Scale

\* C35: a well-formed request that reaches the sheet service in working
\* order is answered success = true exactly when its data supplies every
\* required field, confirms consent and has a numeric latitude in [-90, 90]
\* and a numeric longitude in [-180, 180], the boundaries and 0 included
AcceptsExactlyValid ==
    [][ \A e \in Requests :
            (/\ doPost(e)
             /\ e.body = "multipart"
             /\ e.sheetFault = "none"
             /\ Len(sheet) < MaxRows)
            => (reply'.success <=> Acceptable(e.data)) ]_vars


\* JSON.stringify of the record and JSON.parse in the backend: the values of
\* the model's coordinates as the backend reads them. Positions of the map
\* are numbers, the island name and 'ISLAND_ENTRY' are strings, null stays
\* falsy
wire ==
    [v \in {"4.1755", "73.5093", "4.1760", "73.5100", "Male", "ISLAND_ENTRY", Null} |->
        CASE v = "4.1755"  -> JNum(41755)
          [] v = "73.5093" -> JNum(735093)
          [] v = "4.1760"  -> JNum(41760)
          [] v = "73.5100" -> JNum(735100)
          [] v = "Male"    -> JStr(<<"M", "a", "l", "e">>)
          [] v = "ISLAND_ENTRY" ->
                JStr(<<"I", "S", "L", "A", "N", "D", "_", "E", "N", "T", "R", "Y">>)
          [] v = Null -> JUndefined]

\* the record of submitForm as validateSubmission receives it: identifier,
\* timestamp, category and subcategory are non-empty values
received(record) ==
    [f \in {requiredFields[i] : i \in 1..Len(requiredFields)} |->
        CASE f = "lat" -> wire[record.lat]
          [] f = "lon" -> wire[record.lon]
          [] f = "consent_confirmed" ->
                IF record.consent_confirmed = "yes" THEN JStr(Yes) ELSE JStr(<<"n", "o">>)
          [] OTHER -> JStr(<<"x">>)]

\* the form filled in either entry mode and submitted
NextLocate ==
    \/ startBtnClick
    \/ toggleEntryMode
    \/ \E v \in Islands \cup {""} : islandSelectChange(v)
    \/ \E c \in Coords : handleLocationSuccess(c)
    \/ \E newPos \in DragPositions : markerDragEnd(newPos)
    \/ confirmLocation
    \/ \E sel \in Selections : handleSearchResultSelect(sel)
    \/ \E v \in LightValues : lightWorkingChange(v)
    \/ submitInvalid
    \/ submitStart
    \/ submitConverted
    \/ \E kind \in ResponseKinds : submitResponse(kind)
    \/ \E fault \in StorageFaults : fallbackStore(fault)
    \/ startNewEntry

SpecLocate == Init /\ [][NextLocate]_vars

\* C40: every record submitForm builds, which it does only from a form
\* that passed validateForm, map mode or island mode, passes the backend's
\* validateSubmission
ClientBackendAgree ==
    submissionData # None => validateSubmission(received(submissionData)).valid


\* C36: when a sweep has finished, every identifier that tryFallbackStorage
\* queued and that was not in the snapshot of that sweep, so was enqueued
\* while it ran or after it, is in the pending index and has its payload
ConcurrentEnqueueKept ==
    sweepLog.state = "done" =>
        \A n \in 1..Len(entries) :
            (/\ entries[n].result = "queued"
             /\ ~Includes(sweepLog.snapshot, entries[n].queuedId))
            => /\ Includes(pendingIndex, entries[n].queuedId)
               /\ entries[n].queuedId \in DOMAIN fallback


\* C37: when tryFallbackStorage returns false, and it does whenever the
\* write of the payload or of the index throws, the pending index is as it
\* was before and every identifier of the index that had its payload still
\* has it; at most the payload of the failed submission is left without
\* index entry
FailedEnqueueLeavesIndex ==
    [][ \A fault \in StorageFaults :
            fallbackStore(fault) =>
                /\ fault # "none" => entries'[Len(entries')].result = "error"
                /\ entries'[Len(entries')].result = "error" =>
                      /\ pendingIndex' = pendingIndex
                      /\ \A i \in 1..Len(pendingIndex') :
                            pendingIndex'[i] \in DOMAIN fallback
                               => pendingIndex'[i] \in DOMAIN fallback'
                      /\ DOMAIN fallback' \ DOMAIN fallback \subseteq {fbData.submission_id} ]_vars

\* the index write of an enqueue has thrown: the payload of the submission
\* is stored and the index does not list it
OrphanedPayload ==
    /\ entries # <<>>
    /\ entries[Len(entries)].result = "error"
    /\ \E id \in DOMAIN fallback :
          /\ id > entries[Len(entries)].sentId
          /\ ~Includes(pendingIndex, id)


\* a step of submitForm
SubmitStep ==
    \/ submitStart
    \/ submitConverted
    \/ \E kind \in ResponseKinds : submitResponse(kind)
    \/ \E fault \in StorageFaults : fallbackStore(fault)

\* C38: when the delivery has failed and tryFallbackStorage has returned
\* false, submitForm ends with formData and the draft slot as they were; a
\* step of submitForm changes either of them only when the endpoint has
\* answered with success or the submission has been queued
DraftKeptOnDoubleFault ==
    [][ /\ \A fault \in StorageFaults :
              (fallbackStore(fault) /\ entries'[Len(entries')].result = "error")
              => formData' = formData /\ draftSlot' = draftSlot
        /\ (SubmitStep /\ (formData' # formData \/ draftSlot' # draftSlot))
           => \/ /\ entries'[Len(entries')].result = "delivered"
                 /\ entries'[Len(entries')].response = "json_success"
              \/ /\ entries'[Len(entries')].result = "queued"
                 /\ entries'[Len(entries')].queuedId \in DOMAIN fallback'
                 /\ Includes(pendingIndex', entries'[Len(entries')].queuedId) ]_vars

\* the delivery and the enqueue of an entry have both failed; its draft is
\* in the slot and the form still shows it
DoubleFaultWithDraft ==
    /\ entries # <<>>
    /\ entries[Len(entries)].result = "error"
    /\ entries[Len(entries)].fallbackCalls = 1
    /\ submitPc = "idle"
    /\ draftSlot # <<>>
    /\ formData.category # ""
    /\ screen = "form-screen"


\* another script of the origin, or the user, overwrites the draft slot
corruptDraft(kind) ==
    /\ ~SetItemThrows
    /\ draftSlot' = << [raw |-> kind] >>
    /\ alert' = ""
    /\ UNCHANGED <<formVars, now, screen, uuidCounter, accepted>>
    /\ UNCHANGED <<submitVars, sweepVars, queueVars, loadLog, compressing, confirmed, backendVars>>

\* init, by page load and by the button of the start screen, on a draft
\* slot that holds whatever was written to it
NextCorrupt ==
    \/ startBtnClick
    \/ \E c \in Coords : handleLocationSuccess(c)
    \/ confirmLocation
    \/ \E sel \in Selections : handleSearchResultSelect(sel)
    \/ \E v \in LightValues : lightWorkingChange(v)
    \/ backToLocation
    \/ backToStart
    \/ manualInit
    \/ pageLoad
    \/ \E kind \in CorruptKinds : corruptDraft(kind)

SpecCorrupt == Init /\ [][NextCorrupt]_vars

\* init runs loadDraft
InitRuns == pageLoad \/ manualInit

=========================================================================
